---- MODULE Spec2Model ----
(***************************************************************************)
(* Model of the VCD parsing / protocol-decoding engine of vcd_protocol     *)
(* (utils/vcd.ts: getSignalValueAt, decodeUART, decodeSPI, decodeAvalon,   *)
(* binToHex).                                                              *)
(*                                                                         *)
(* Conventions.                                                            *)
(*  - A JavaScript string is a sequence of one-character strings, so the   *)
(*    scalar value '1' is <<"1">> and the vector value '0101' is           *)
(*    <<"0","1","0","1">>.                                                 *)
(*  - A signal is a record [size, values]; values is the sequence of       *)
(*    [time, value] records in append order (VCDSignal.values).            *)
(*  - decodeUART samples at startTime + bitDurationTicks * (b + 1.5), a    *)
(*    half-integer.  Query times are therefore passed to getSignalValueAt  *)
(*    in half ticks (twice the tick value), and the comparison             *)
(*    v.time > time becomes 2 * v.time > time2.                            *)
(*  - Each decoder loop iteration is one action.                           *)
(***************************************************************************)
EXTENDS Integers, Sequences, FiniteSets, TLC

VARIABLES
    pc,               \* position of the program: which call is running / has returned
    signals,          \* the Signal Table: name -> [size, values]
    qTime,            \* getSignalValueAt: the query time of the last call (ticks)
    qResult,          \* getSignalValueAt: the value it returned
    cfg,              \* decoder configuration (baudRate/timescaleStr, cpol/cpha)
    bitDurationTicks, \* decodeUART: const bitDurationTicks
    i,                \* the decoders' loop index (1-based here, 0-based in the source)
    events,           \* the decoders' events array
    mosiBits,         \* decodeSPI: let mosiBits
    misoBits,         \* decodeSPI: let misoBits
    byteStartTime,    \* decodeSPI: let byteStartTime
    clockPeriod,      \* decodeAvalon: let clockPeriod
    bin,              \* binToHex: the argument
    hex,              \* binToHex: the returned string, or NotYet before the call
    content,          \* parseVCD: the input text, as its sequence of lines
    lineNo,           \* parseVCD: the line of headerLines / dataLines the loop is at
    scopeStack,       \* parseVCD: let scopeStack
    idToSignal,       \* parseVCD: identifier code -> name of the signal object it refers to
    timescale,        \* parseVCD: let timescale
    currentTime,      \* parseVCD: let currentTime
    maxTime,          \* parseVCD: let maxTime
    decoded           \* App: the event lists of the decoder calls that have returned

\* The variables of parseVCD other than the Signal Table.
parserVars == <<content, lineNo, scopeStack, idToSignal, timescale, currentTime, maxTime>>

vars == <<pc, signals, qTime, qResult, cfg, bitDurationTicks, i, events,
          mosiBits, misoBits, byteStartTime, clockPeriod, bin, hex,
          content, lineNo, scopeStack, idToSignal, timescale, currentTime, maxTime,
          decoded>>

-----------------------------------------------------------------------------
(* Bounds of the model                                                     *)

\* Largest tick of a generic (exhaustively enumerated) history.
MaxTick == 2
\* Largest number of entries of a generic history.
MaxChanges == 3
\* Largest length of an exhaustively enumerated binToHex argument.
MaxBinLen == 4
\* Largest length of the head and of the tail of a wide binToHex argument.
MaxAffix == 2

-----------------------------------------------------------------------------
(* Strings                                                                 *)

NotYet == "not-yet"
Undefined == "undefined"

Max(a, b) == IF a > b THEN a ELSE b

\* A JavaScript number: NaN, or the integer n.
NaN == [nan |-> TRUE]
Num(n) == [nan |-> FALSE, n |-> n]

\* let timescale = '1ns'
DefaultTimescale == <<"1","n","s">>

\* All sequences over S of length 0..n.
SeqsUpTo(S, n) == UNION {[1..k -> S] : k \in 0..n}

\* n copies of the character c.
Repeat(c, n) == [k \in 1..n |-> c]

LowerCase == <<"a","b","c","d","e","f","g","h","i","j","k","l","m",
               "n","o","p","q","r","s","t","u","v","w","x","y","z">>
UpperCase == <<"A","B","C","D","E","F","G","H","I","J","K","L","M",
               "N","O","P","Q","R","S","T","U","V","W","X","Y","Z">>

\* String.prototype.toUpperCase on one character.
ToUpperCase(c) ==
    IF \E k \in 1..26 : LowerCase[k] = c
    THEN UpperCase[CHOOSE k \in 1..26 : LowerCase[k] = c]
    ELSE c

\* Number.prototype.toString(16) digits, after toUpperCase.
HexDigits == <<"0","1","2","3","4","5","6","7","8","9","A","B","C","D","E","F">>

-----------------------------------------------------------------------------
(* getSignalValueAt                                                        *)

\* for (const v of signal.values) { if (v.time > time) return lastVal; lastVal = v.value; }
RECURSIVE ScanValues(_, _, _, _)
ScanValues(values, time2, k, lastVal) ==
    IF k > Len(values) THEN lastVal
    ELSE IF 2 * values[k].time > time2 THEN lastVal
    ELSE ScanValues(values, time2, k + 1, values[k].value)

\* Mutant: the comparison v.time >= time, which drops an entry recorded exactly at
\* the query time.
M_getSignalValueAt_ge(signal, time2) ==
    LET RECURSIVE Scan(_, _)
        Scan(k, lastVal) ==
            IF k > Len(signal.values) THEN lastVal
            ELSE IF 2 * signal.values[k].time >= time2 THEN lastVal
            ELSE Scan(k + 1, signal.values[k].value)
    IN Scan(1, <<"x">>)

\* getSignalValueAt(signal, time), time given in half ticks.
getSignalValueAt(signal, time2) == ScanValues(signal.values, time2, 1, <<"x">>)

-----------------------------------------------------------------------------
(* binToHex                                                                *)

\* The character class of /[uUxXzZwWl LhH-]/.
NonBinaryClass == {"u","U","x","X","z","Z","w","W","l"," ","L","h","H","-"}

\* new Set(bin.split(''))
uniqueChars(s) == {s[k] : k \in 1..Len(s)}

RECURSIVE StripLeadingZeros(_)
StripLeadingZeros(bits) ==
    IF bits # <<>> /\ Head(bits) = "0" THEN StripLeadingZeros(Tail(bits)) ELSE bits

BitVal(c) == IF c = "1" THEN 1 ELSE 0

\* The hexadecimal digits of a bit string whose length is a multiple of 4.
RECURSIVE NibblesToHex(_)
NibblesToHex(bits) ==
    IF bits = <<>> THEN <<>>
    ELSE <<HexDigits[8 * BitVal(bits[1]) + 4 * BitVal(bits[2])
                     + 2 * BitVal(bits[3]) + BitVal(bits[4]) + 1]>>
         \o NibblesToHex(SubSeq(bits, 5, Len(bits)))

\* Mutant: the value goes through a 32-bit integer (parseInt(bin, 2) >>> 0), which
\* keeps only the 32 low-order bits.
M_BigIntToHex_u32(bits) ==
    LET low == IF Len(bits) > 32 THEN SubSeq(bits, Len(bits) - 31, Len(bits)) ELSE bits
        sig == StripLeadingZeros(low)
        pad == (4 - (Len(sig) % 4)) % 4
    IN IF sig = <<>> THEN <<"0">> ELSE NibblesToHex(Repeat("0", pad) \o sig)

\* BigInt('0b' + bin).toString(16).toUpperCase() for a non-empty string over
\* {0,1}: an arbitrary-precision integer has no width, so the numeral is
\* computed on the digits: leading zero bits dropped, the rest grouped in fours
\* from the right.
BigIntToHex(bits) ==
    LET sig == StripLeadingZeros(bits)
        pad == (4 - (Len(sig) % 4)) % 4
    IN IF sig = <<>> THEN <<"0">> ELSE NibblesToHex(Repeat("0", pad) \o sig)

\* Mutant: the single repeated character is returned as it is, not uppercased.
M_binToHex_noUpper(s) ==
    IF s = <<>> THEN <<"X">>
    ELSE IF \E k \in 1..Len(s) : s[k] \in NonBinaryClass
    THEN IF Cardinality(uniqueChars(s)) = 1 THEN <<s[1]>> ELSE <<"X">>
    ELSE IF \A k \in 1..Len(s) : s[k] \in {"0", "1"}
    THEN BigIntToHex(s)
    ELSE <<"X">>

\* binToHex(bin).  BigInt() throws a SyntaxError on a character that is no binary
\* digit; the catch clause returns 'X'.
binToHex(s) ==
    IF s = <<>> THEN <<"X">>
    ELSE IF \E k \in 1..Len(s) : s[k] \in NonBinaryClass
    THEN IF Cardinality(uniqueChars(s)) = 1 THEN <<ToUpperCase(s[1])>> ELSE <<"X">>
    ELSE IF \A k \in 1..Len(s) : s[k] \in {"0", "1"}
    THEN BigIntToHex(s)
    ELSE <<"X">>

-----------------------------------------------------------------------------
(* Inputs and the states shared by every specification                     *)

\* The values of a scalar signal in a generic history.
ScalarValues == {<<"0">>, <<"1">>, <<"x">>, <<"z">>}

Entry(t, v) == [time |-> t, value |-> v]

\* Every history of at most MaxChanges entries with ticks in 0..MaxTick, in any
\* order of ticks: parseVCD appends [currentTime, value] for each value-change
\* line, and currentTime is whatever the last '#' line said.
HistoriesOver(V) ==
    SeqsUpTo({Entry(t, v) : t \in 0..MaxTick, v \in V}, MaxChanges)

GenericHistories == HistoriesOver(ScalarValues)

\* clk of "#0 0! #5 1! #10 0! #15 1!".
ClkScenario ==
    <<Entry(0, <<"0">>), Entry(5, <<"1">>), Entry(10, <<"0">>), Entry(15, <<"1">>)>>

Signal(size, values) == [size |-> size, values |-> values]

ClkName == <<"c","l","k">>

\* signals.get(name)
Get(name) == IF name \in DOMAIN signals THEN signals[name] ELSE Undefined

\* The truthiness of a decoder's signal argument: if (cs), !sclk.
Supplied(name) == name \in DOMAIN signals

\* The values of the variables no call has touched yet.
Fresh ==
    /\ qTime = -1
    /\ qResult = NotYet
    /\ bitDurationTicks = 0
    /\ i = 0
    /\ events = <<>>
    /\ mosiBits = <<>>
    /\ misoBits = <<>>
    /\ byteStartTime = -1
    /\ clockPeriod = 0
    /\ hex = NotYet
    /\ lineNo = 0
    /\ scopeStack = <<>>
    /\ idToSignal = <<>>
    /\ timescale = DefaultTimescale
    /\ currentTime = Num(0)
    /\ maxTime = 0
    /\ decoded = <<>>

-----------------------------------------------------------------------------
(* SpecQuery: getSignalValueAt on the parsed table                         *)

QueryTicks == (0..(MaxTick + 1)) \cup {7, 20}

InitQuery ==
    /\ pc = "ready"
    /\ signals \in {ClkName :> Signal(1, h) : h \in GenericHistories \cup {ClkScenario}}
    /\ cfg = Undefined
    /\ bin = <<>>
    /\ content = <<>>
    /\ Fresh

Query(t) ==
    /\ pc \in {"ready", "queried"}
    /\ pc' = "queried"
    /\ qTime' = t
    /\ qResult' = getSignalValueAt(signals[ClkName], 2 * t)
    /\ UNCHANGED <<signals, cfg, bitDurationTicks, i, events, mosiBits, misoBits,
                   byteStartTime, clockPeriod, bin, hex>>
    /\ UNCHANGED <<parserVars, decoded>>

NextQuery == \E t \in QueryTicks : Query(t)

SpecQuery == InitQuery /\ [][NextQuery]_vars

-----------------------------------------------------------------------------
(* SpecHex: binToHex                                                       *)

\* Binary digits, three state markers of the class (one of them a lower-case
\* letter whose upper case differs), and a character outside the class.
HexAlphabet == {"0", "1", "x", "z", "h", "?"}

\* Lengths of the run that makes an argument wider than 32 and than 64 bits.
WideFill == {29, 61}

WideInputs ==
    {head \o Repeat(c, n) \o tail :
        head \in SeqsUpTo({"0", "1"}, MaxAffix), tail \in SeqsUpTo({"0", "1"}, MaxAffix),
        c \in {"0", "1", "x"}, n \in WideFill}

HexInputs == SeqsUpTo(HexAlphabet, MaxBinLen) \cup WideInputs

InitHex ==
    /\ pc = "hex"
    /\ signals = <<>>
    /\ cfg = Undefined
    /\ bin \in HexInputs
    /\ content = <<>>
    /\ Fresh

CallBinToHex ==
    /\ pc = "hex"
    /\ pc' = "hexdone"
    /\ hex' = binToHex(bin)
    /\ UNCHANGED <<signals, qTime, qResult, cfg, bitDurationTicks, i, events,
                   mosiBits, misoBits, byteStartTime, clockPeriod, bin>>
    /\ UNCHANGED <<parserVars, decoded>>

NextHex == CallBinToHex

SpecHex == InitHex /\ [][NextHex]_vars

-----------------------------------------------------------------------------
(* decodeUART                                                              *)

\* Number of data bits sampled per frame: for (let b = 0; b < 8; b++).
DataBitCount == 8
\* Bit periods of one frame: start + 8 data + stop.
FrameBitCount == 10
\* The default tick when the unit is not in the table: units[unit] || 1e-9.
DefaultExponent == 9

DigitChars == <<"0","1","2","3","4","5","6","7","8","9">>
IsDigit(c) == \E k \in 1..10 : DigitChars[k] = c
\* \w: letters, digits and underscore.
IsWord(c) ==
    \/ IsDigit(c)
    \/ c = "_"
    \/ \E k \in 1..26 : LowerCase[k] = c \/ UpperCase[k] = c
\* \s restricted to the blank.
IsSpace(c) == c = " "

\* c belongs to the character class \d, \s or \w.
InClass(c, class) ==
    CASE class = "d" -> IsDigit(c)
      [] class = "s" -> IsSpace(c)
      [] class = "w" -> IsWord(c)

\* The end of the longest run of characters of one class that starts at p
\* (p - 1 when s[p] is not of the class).
RECURSIVE RunEnd(_, _, _)
RunEnd(s, p, class) ==
    IF p <= Len(s) /\ InClass(s[p], class) THEN RunEnd(s, p + 1, class) ELSE p - 1

\* parseInt of a string of decimal digits.
RECURSIVE parseIntDigits(_)
parseIntDigits(s) ==
    IF s = <<>> THEN 0
    ELSE 10 * parseIntDigits(SubSeq(s, 1, Len(s) - 1))
         + (CHOOSE k \in 1..10 : DigitChars[k] = s[Len(s)]) - 1

\* timescaleStr.match(/(\d+)\s*(\w+)/) tried at start position p and, when it
\* fails there, at the following positions.  \d+ first takes the whole run of
\* digits; when no word character follows the digits and the blanks after them, it
\* gives its last digit back and \w+ matches that digit.
RECURSIVE MatchFrom(_, _)
MatchFrom(s, p) ==
    IF p > Len(s) THEN [ok |-> FALSE]
    ELSE IF ~IsDigit(s[p]) THEN MatchFrom(s, p + 1)
    ELSE LET q == RunEnd(s, p, "d")
             r == RunEnd(s, q + 1, "s") + 1
         IN IF r <= Len(s) /\ IsWord(s[r])
            THEN [ok |-> TRUE, val |-> SubSeq(s, p, q),
                  unit |-> SubSeq(s, r, RunEnd(s, r, "w"))]
            ELSE IF q > p
            THEN [ok |-> TRUE, val |-> SubSeq(s, p, q - 1), unit |-> <<s[q]>>]
            ELSE MatchFrom(s, q + 1)

TimescaleMatch(s) == MatchFrom(s, 1)

\* const units: the unit's tick in seconds is 10^-UnitExponent.
UnitExponent(unit) ==
    CASE unit = <<"s">> -> 0
      [] unit = <<"m","s">> -> 3
      [] unit = <<"u","s">> -> 6
      [] unit = <<"n","s">> -> 9
      [] unit = <<"p","s">> -> 12
      [] unit = <<"f","s">> -> 15
      [] OTHER -> DefaultExponent

RECURSIVE Pow10(_)
Pow10(k) == IF k = 0 THEN 1 ELSE 10 * Pow10(k - 1)

\* Math.round(n / d) for positive integers: the nearest integer, a half rounded up.
RoundDiv(n, d) == (n \div d) + (IF 2 * (n % d) >= d THEN 1 ELSE 0)

\* Mutant: Math.floor in place of Math.round.
M_BitDuration_floor(baudRate, val, unit) ==
    Max(1, Pow10(UnitExponent(unit)) \div (baudRate * val))

\* Math.max(1, Math.round(1 / (baudRate * tickInSec))) with
\* tickInSec = val * 10^-UnitExponent(unit), computed on integers.
BitDuration(baudRate, val, unit) ==
    Max(1, RoundDiv(Pow10(UnitExponent(unit)), baudRate * val))

\* The half-tick sample time of data bit b: startTime + bitDurationTicks * (b + 1.5).
SampleTime2(startTime, bitDur, b) == 2 * startTime + bitDur * (2 * b + 3)

\* parseInt(valAtSample) of a scalar value.
parseIntValue(v) == IF v = <<"1">> THEN Num(1) ELSE IF v = <<"0">> THEN Num(0) ELSE NaN
\* if (dataBits[b])
Truthy(x) == ~x.nan /\ x.n # 0

\* Mutant: only 'x' abandons the candidate; 'z' is sampled as a 0 bit.
RECURSIVE M_SampleBits_zIsZero(_, _, _, _)
M_SampleBits_zIsZero(signal, startTime, bitDur, b) ==
    IF b = DataBitCount THEN [possible |-> TRUE, dataBits |-> <<>>]
    ELSE LET valAtSample == getSignalValueAt(signal, SampleTime2(startTime, bitDur, b))
         IN IF valAtSample = <<"x">>
            THEN [possible |-> FALSE, dataBits |-> <<>>]
            ELSE LET rest == M_SampleBits_zIsZero(signal, startTime, bitDur, b + 1)
                 IN [possible |-> rest.possible,
                     dataBits |-> <<parseIntValue(valAtSample)>> \o rest.dataBits]

\* The sampling loop from data bit b on: possible, and dataBits[b..7] when possible.
RECURSIVE SampleBits(_, _, _, _)
SampleBits(signal, startTime, bitDur, b) ==
    IF b = DataBitCount THEN [possible |-> TRUE, dataBits |-> <<>>]
    ELSE LET valAtSample == getSignalValueAt(signal, SampleTime2(startTime, bitDur, b))
         IN IF valAtSample = <<"x">> \/ valAtSample = <<"z">>
            THEN [possible |-> FALSE, dataBits |-> <<>>]
            ELSE LET rest == SampleBits(signal, startTime, bitDur, b + 1)
                 IN [possible |-> rest.possible,
                     dataBits |-> <<parseIntValue(valAtSample)>> \o rest.dataBits]

RECURSIVE Pow2(_)
Pow2(k) == IF k = 0 THEN 1 ELSE 2 * Pow2(k - 1)

\* Mutant: the first sample becomes the most significant bit (byte |= 1 << (7 - b)).
RECURSIVE M_BitsToByte_msbFirst(_, _)
M_BitsToByte_msbFirst(dataBits, b) ==
    IF b > Len(dataBits) THEN 0
    ELSE (IF Truthy(dataBits[b]) THEN Pow2(Len(dataBits) - b) ELSE 0)
         + M_BitsToByte_msbFirst(dataBits, b + 1)

\* for (b) if (dataBits[b]) byte |= (1 << b), from the (1-based) position b on.
RECURSIVE BitsToByte(_, _)
BitsToByte(dataBits, b) ==
    IF b > Len(dataBits) THEN 0
    ELSE (IF Truthy(dataBits[b]) THEN Pow2(b - 1) ELSE 0) + BitsToByte(dataBits, b + 1)

\* byte.toString(16).toUpperCase().padStart(2, '0') for a byte.
ByteHex(byte) == <<HexDigits[(byte \div 16) + 1], HexDigits[(byte % 16) + 1]>>

\* The grave accent (0x60), which a TLA+ string cannot hold.
Grave == "grave-accent"

\* The characters 0x20..0x7E.
PrintableAscii ==
    <<" ","!","\"","#","$","%","&","'","(",")","*","+",",","-",".","/",
      "0","1","2","3","4","5","6","7","8","9",":",";","<","=",">","?",
      "@","A","B","C","D","E","F","G","H","I","J","K","L","M","N","O",
      "P","Q","R","S","T","U","V","W","X","Y","Z","[","\\","]","^","_",
      Grave,"a","b","c","d","e","f","g","h","i","j","k","l","m","n","o",
      "p","q","r","s","t","u","v","w","x","y","z","{","|","}","~">>

\* A character that is not one of PrintableAscii.
Unprintable == "unprintable"

\* String.fromCharCode(byte)
fromCharCode(byte) ==
    IF byte >= 32 /\ byte <= 126 THEN PrintableAscii[byte - 31] ELSE Unprintable

\* char.match(/[ -~]/)
MatchesPrintable(char) == \E k \in 1..Len(PrintableAscii) : PrintableAscii[k] = char

\* Mutant: the event ends after the 8 data bits, start and stop bit left out.
M_UARTEvent_dataBitsOnly(startTime, bitDur, dataBits) ==
    LET byte == BitsToByte(dataBits, 1)
        char == fromCharCode(byte)
        hx == ByteHex(byte)
    IN [startTime |-> startTime,
        endTime |-> startTime + bitDur * DataBitCount,
        data |-> <<"0", "x">> \o hx,
        label |-> IF MatchesPrintable(char) THEN <<char>> ELSE <<"\\", "x">> \o hx]

\* The event pushed for a frame that starts at startTime.
UARTEvent(startTime, bitDur, dataBits) ==
    LET byte == BitsToByte(dataBits, 1)
        char == fromCharCode(byte)
        hx == ByteHex(byte)
    IN [startTime |-> startTime,
        endTime |-> startTime + bitDur * FrameBitCount,
        data |-> <<"0", "x">> \o hx,
        label |-> IF MatchesPrintable(char) THEN <<char>> ELSE <<"\\", "x">> \o hx]

\* Mutant: the scan stays on the start bit of the frame it has just decoded.
M_SkipAhead_stays(values, k, nextTime) == k

\* Mutant: the scan restarts at the entry after the start bit (i++) instead of
\* skipping the frame.
M_SkipAhead_none(values, k, nextTime) == k + 1

\* while (i < values.length && values[i].time < nextTime) i++
RECURSIVE SkipAhead(_, _, _)
SkipAhead(values, k, nextTime) ==
    IF k <= Len(values) /\ values[k].time < nextTime
    THEN SkipAhead(values, k + 1, nextTime)
    ELSE k

RxName == <<"r","x">>
Rx == signals[RxName]

\* The entry of decodeUART up to the first test of the while condition.
UARTStart ==
    /\ pc = "uart"
    /\ LET match == TimescaleMatch(cfg.timescaleStr)
       IN IF ~match.ok
          THEN /\ pc' = "uart_done"
               /\ UNCHANGED <<bitDurationTicks, i>>
          ELSE /\ bitDurationTicks' =
                      BitDuration(cfg.baudRate, parseIntDigits(match.val), match.unit)
               /\ IF Len(Rx.values) < 2
                  THEN pc' = "uart_done" /\ UNCHANGED i
                  ELSE pc' = "uart_loop" /\ i' = 2
    /\ events' = <<>>
    /\ UNCHANGED <<signals, qTime, qResult, cfg, mosiBits, misoBits, byteStartTime,
                   clockPeriod, bin, hex>>
    /\ UNCHANGED <<parserVars, decoded>>

\* One iteration of while (i < values.length).
UARTStep ==
    /\ pc = "uart_loop"
    /\ i <= Len(Rx.values)
    /\ LET prev == Rx.values[i - 1]
           curr == Rx.values[i]
       IN IF prev.value = <<"1">> /\ curr.value = <<"0">>
          THEN LET startTime == curr.time
                   s == SampleBits(Rx, startTime, bitDurationTicks, 0)
               IN IF s.possible
                  THEN /\ events' = Append(events,
                                        UARTEvent(startTime, bitDurationTicks, s.dataBits))
                       /\ i' = SkipAhead(Rx.values, i,
                                         startTime + bitDurationTicks * FrameBitCount)
                  ELSE /\ i' = i + 1
                       /\ UNCHANGED events
          ELSE /\ i' = i + 1
               /\ UNCHANGED events
    /\ UNCHANGED <<pc, signals, qTime, qResult, cfg, bitDurationTicks, mosiBits,
                   misoBits, byteStartTime, clockPeriod, bin, hex>>
    /\ UNCHANGED <<parserVars, decoded>>

\* Mutant: the decoder drops the first entry of the history it has read.
M_UARTReturn_consumesHistory ==
    /\ pc = "uart_loop"
    /\ i > Len(Rx.values)
    /\ pc' = "uart_done"
    /\ signals' = [signals EXCEPT ![RxName].values = Tail(@)]
    /\ UNCHANGED <<qTime, qResult, cfg, bitDurationTicks, i, events, mosiBits,
                   misoBits, byteStartTime, clockPeriod, bin, hex>>
    /\ UNCHANGED <<parserVars, decoded>>

\* The while condition fails: return events.
UARTReturn ==
    /\ pc = "uart_loop"
    /\ i > Len(Rx.values)
    /\ pc' = "uart_done"
    /\ UNCHANGED <<signals, qTime, qResult, cfg, bitDurationTicks, i, events, mosiBits,
                   misoBits, byteStartTime, clockPeriod, bin, hex>>
    /\ UNCHANGED <<parserVars, decoded>>

-----------------------------------------------------------------------------
(* decodeSPI                                                               *)

\* Bits per byte: mosiBits.length === 8.
ByteBits == 8
\* let byteStartTime = -1: no byte in progress.
NoByteStart == -1

SclkName == <<"s","c","l","k">>
MosiName == <<"m","o","s","i">>
MisoName == <<"m","i","s","o">>
CsName == <<"c","s">>

\* Mutant: the leading edge is taken to be the rising one whatever cpol is.
M_SampleEdge_ignoreCpol(cpol, cpha, isRising, isFalling) ==
    IF cpha = 0 THEN isRising ELSE isFalling

\* isSampleEdge
SampleEdge(cpol, cpha, isRising, isFalling) ==
    IF cpol = 0
    THEN (IF cpha = 0 THEN isRising ELSE isFalling)
    ELSE (IF cpha = 0 THEN isFalling ELSE isRising)

\* Mutant: only '0' is accumulated as 0, any other value as 1.
M_SampledBit_unknownIsOne(v) == IF v = <<"0">> THEN 0 ELSE 1

\* v === '1' ? 1 : 0
SampledBit(v) == IF v = <<"1">> THEN 1 ELSE 0

\* Mutant: the first sampled bit becomes the least significant (1 << b).
M_SPIByte_lsbFirst(bits) ==
    LET RECURSIVE Sum(_)
        Sum(b) == IF b > Len(bits) THEN 0
                  ELSE (IF bits[b] = 1 THEN Pow2(b - 1) ELSE 0) + Sum(b + 1)
    IN Sum(1)

\* for (b) if (bits[b]) byte |= (1 << (7 - b)); bits[b] is undefined, hence
\* falsy, beyond the end of an accumulator that was never filled.
SPIByte(bits) ==
    LET RECURSIVE Sum(_)
        Sum(b) == IF b > Len(bits) THEN 0
                  ELSE (IF bits[b] = 1 THEN Pow2(ByteBits - b) ELSE 0) + Sum(b + 1)
    IN Sum(1)

\* The event pushed when an accumulator holds 8 bits.
SPIEvent(start, end, mBits, sBits) ==
    [startTime |-> start,
     endTime |-> end,
     data |-> <<"M","O","S","I",":"," ","0","x">> \o ByteHex(SPIByte(mBits))
              \o <<","," ","M","I","S","O",":"," ","0","x">> \o ByteHex(SPIByte(sBits)),
     label |-> <<"M",":">> \o ByteHex(SPIByte(mBits))
               \o <<" ","S",":">> \o ByteHex(SPIByte(sBits))]

\* The entry of decodeSPI up to the first test of the for condition.
SPIStart ==
    /\ pc = "spi"
    /\ events' = <<>>
    /\ IF ~Supplied(SclkName)
       THEN /\ pc' = "spi_done"
            /\ UNCHANGED <<mosiBits, misoBits, byteStartTime, i>>
       ELSE /\ pc' = "spi_loop"
            /\ mosiBits' = <<>>
            /\ misoBits' = <<>>
            /\ byteStartTime' = NoByteStart
            /\ i' = 2
    /\ UNCHANGED <<signals, qTime, qResult, cfg, bitDurationTicks, clockPeriod, bin, hex>>
    /\ UNCHANGED <<parserVars, decoded>>

\* Mutant: a clock transition with chip-select inactive is skipped, and the bits
\* accumulated so far are kept.
M_SPIStep_keepsPartialByte ==
    /\ pc = "spi_loop"
    /\ i <= Len(signals[SclkName].values)
    /\ i' = i + 1
    /\ LET prev == signals[SclkName].values[i - 1]
           curr == signals[SclkName].values[i]
           mosi == Get(MosiName)
           miso == Get(MisoName)
           cs == Get(CsName)
       IN IF Supplied(CsName) /\ getSignalValueAt(cs, 2 * curr.time) # <<"0">>
          THEN UNCHANGED <<mosiBits, misoBits, byteStartTime, events>>
          ELSE LET isRising == prev.value = <<"0">> /\ curr.value = <<"1">>
                   isFalling == prev.value = <<"1">> /\ curr.value = <<"0">>
               IN IF SampleEdge(cfg.cpol, cfg.cpha, isRising, isFalling)
                  THEN LET start == IF byteStartTime = NoByteStart
                                    THEN curr.time ELSE byteStartTime
                           mBits == IF Supplied(MosiName)
                                    THEN Append(mosiBits, SampledBit(
                                             getSignalValueAt(mosi, 2 * curr.time)))
                                    ELSE mosiBits
                           sBits == IF Supplied(MisoName)
                                    THEN Append(misoBits, SampledBit(
                                             getSignalValueAt(miso, 2 * curr.time)))
                                    ELSE misoBits
                       IN IF Len(mBits) = ByteBits \/ Len(sBits) = ByteBits
                          THEN /\ events' = Append(events,
                                                SPIEvent(start, curr.time, mBits, sBits))
                               /\ mosiBits' = <<>>
                               /\ misoBits' = <<>>
                               /\ byteStartTime' = NoByteStart
                          ELSE /\ mosiBits' = mBits
                               /\ misoBits' = sBits
                               /\ byteStartTime' = start
                               /\ UNCHANGED events
                  ELSE UNCHANGED <<mosiBits, misoBits, byteStartTime, events>>
    /\ UNCHANGED <<pc, signals, qTime, qResult, cfg, bitDurationTicks, clockPeriod,
                   bin, hex>>
    /\ UNCHANGED <<parserVars, decoded>>

\* Mutant: the byte start time is kept after a byte has been emitted.
M_SPIStep_keepsStartTime ==
    /\ pc = "spi_loop"
    /\ i <= Len(signals[SclkName].values)
    /\ i' = i + 1
    /\ LET prev == signals[SclkName].values[i - 1]
           curr == signals[SclkName].values[i]
           mosi == Get(MosiName)
           miso == Get(MisoName)
           cs == Get(CsName)
       IN IF Supplied(CsName) /\ getSignalValueAt(cs, 2 * curr.time) # <<"0">>
          THEN /\ mosiBits' = <<>>
               /\ misoBits' = <<>>
               /\ byteStartTime' = NoByteStart
               /\ UNCHANGED events
          ELSE LET isRising == prev.value = <<"0">> /\ curr.value = <<"1">>
                   isFalling == prev.value = <<"1">> /\ curr.value = <<"0">>
               IN IF SampleEdge(cfg.cpol, cfg.cpha, isRising, isFalling)
                  THEN LET start == IF byteStartTime = NoByteStart
                                    THEN curr.time ELSE byteStartTime
                           mBits == IF Supplied(MosiName)
                                    THEN Append(mosiBits, SampledBit(
                                             getSignalValueAt(mosi, 2 * curr.time)))
                                    ELSE mosiBits
                           sBits == IF Supplied(MisoName)
                                    THEN Append(misoBits, SampledBit(
                                             getSignalValueAt(miso, 2 * curr.time)))
                                    ELSE misoBits
                       IN IF Len(mBits) = ByteBits \/ Len(sBits) = ByteBits
                          THEN /\ events' = Append(events,
                                                SPIEvent(start, curr.time, mBits, sBits))
                               /\ mosiBits' = <<>>
                               /\ misoBits' = <<>>
                               /\ byteStartTime' = start
                          ELSE /\ mosiBits' = mBits
                               /\ misoBits' = sBits
                               /\ byteStartTime' = start
                               /\ UNCHANGED events
                  ELSE UNCHANGED <<mosiBits, misoBits, byteStartTime, events>>
    /\ UNCHANGED <<pc, signals, qTime, qResult, cfg, bitDurationTicks, clockPeriod,
                   bin, hex>>
    /\ UNCHANGED <<parserVars, decoded>>

\* One iteration of for (let i = 1; i < sclk.values.length; i++).
SPIStep ==
    /\ pc = "spi_loop"
    /\ i <= Len(signals[SclkName].values)
    /\ i' = i + 1
    /\ LET prev == signals[SclkName].values[i - 1]
           curr == signals[SclkName].values[i]
           mosi == Get(MosiName)
           miso == Get(MisoName)
           cs == Get(CsName)
       IN IF Supplied(CsName) /\ getSignalValueAt(cs, 2 * curr.time) # <<"0">>
          THEN /\ mosiBits' = <<>>
               /\ misoBits' = <<>>
               /\ byteStartTime' = NoByteStart
               /\ UNCHANGED events
          ELSE LET isRising == prev.value = <<"0">> /\ curr.value = <<"1">>
                   isFalling == prev.value = <<"1">> /\ curr.value = <<"0">>
               IN IF SampleEdge(cfg.cpol, cfg.cpha, isRising, isFalling)
                  THEN LET start == IF byteStartTime = NoByteStart
                                    THEN curr.time ELSE byteStartTime
                           mBits == IF Supplied(MosiName)
                                    THEN Append(mosiBits, SampledBit(
                                             getSignalValueAt(mosi, 2 * curr.time)))
                                    ELSE mosiBits
                           sBits == IF Supplied(MisoName)
                                    THEN Append(misoBits, SampledBit(
                                             getSignalValueAt(miso, 2 * curr.time)))
                                    ELSE misoBits
                       IN IF Len(mBits) = ByteBits \/ Len(sBits) = ByteBits
                          THEN /\ events' = Append(events,
                                                SPIEvent(start, curr.time, mBits, sBits))
                               /\ mosiBits' = <<>>
                               /\ misoBits' = <<>>
                               /\ byteStartTime' = NoByteStart
                          ELSE /\ mosiBits' = mBits
                               /\ misoBits' = sBits
                               /\ byteStartTime' = start
                               /\ UNCHANGED events
                  ELSE UNCHANGED <<mosiBits, misoBits, byteStartTime, events>>
    /\ UNCHANGED <<pc, signals, qTime, qResult, cfg, bitDurationTicks, clockPeriod,
                   bin, hex>>
    /\ UNCHANGED <<parserVars, decoded>>

\* The for condition fails: return events.
SPIReturn ==
    /\ pc = "spi_loop"
    /\ i > Len(signals[SclkName].values)
    /\ pc' = "spi_done"
    /\ UNCHANGED <<signals, qTime, qResult, cfg, bitDurationTicks, i, events, mosiBits,
                   misoBits, byteStartTime, clockPeriod, bin, hex>>
    /\ UNCHANGED <<parserVars, decoded>>

-----------------------------------------------------------------------------
(* decodeAvalon                                                            *)

\* let clockPeriod = 1: the period when two rising edges are not found.
DefaultClockPeriod == 1
\* let firstRising = -1: no rising edge seen yet.
NoRising == -1

AddressName == <<"a","d","d","r","e","s","s">>
ReadName == <<"r","e","a","d">>
WriteName == <<"w","r","i","t","e">>
WritedataName == <<"w","r","i","t","e","d","a","t","a">>
ReaddataName == <<"r","e","a","d","d","a","t","a">>
WaitrequestName == <<"w","a","i","t","r","e","q","u","e","s","t">>
ReaddatavalidName == <<"r","e","a","d","d","a","t","a","v","a","l","i","d">>

\* Mutant: the distance between the first two rising edges is taken as it is.
RECURSIVE M_FindPeriod_noClamp(_, _, _)
M_FindPeriod_noClamp(values, k, firstRising) ==
    IF k > Len(values) THEN DefaultClockPeriod
    ELSE IF values[k - 1].value = <<"0">> /\ values[k].value = <<"1">>
         THEN IF firstRising = NoRising
              THEN M_FindPeriod_noClamp(values, k + 1, values[k].time)
              ELSE values[k].time - firstRising
         ELSE M_FindPeriod_noClamp(values, k + 1, firstRising)

\* The loop that looks for the first two rising edges, from entry k on.
RECURSIVE FindPeriod(_, _, _)
FindPeriod(values, k, firstRising) ==
    IF k > Len(values) THEN DefaultClockPeriod
    ELSE IF values[k - 1].value = <<"0">> /\ values[k].value = <<"1">>
         THEN IF firstRising = NoRising
              THEN FindPeriod(values, k + 1, values[k].time)
              ELSE Max(1, values[k].time - firstRising)
         ELSE FindPeriod(values, k + 1, firstRising)

\* Estimate clock period.
EstimatePeriod(values) ==
    IF Len(values) >= 3 THEN FindPeriod(values, 2, NoRising) ELSE DefaultClockPeriod

\* line ? getSignalValueAt(line, time) === '1' : false
IsActive(name, time) ==
    IF Supplied(name) THEN getSignalValueAt(signals[name], 2 * time) = <<"1">> ELSE FALSE

\* Mutant: a line that is not supplied reads as '0'.
M_ValueOrX_zero(name, time) ==
    IF Supplied(name) THEN getSignalValueAt(signals[name], 2 * time) ELSE <<"0">>

\* line ? getSignalValueAt(line, time) : 'X'
ValueOrX(name, time) ==
    IF Supplied(name) THEN getSignalValueAt(signals[name], 2 * time) ELSE <<"X">>

\* Mutant: waitrequest is never consulted.
M_IsWaiting_never(time) == FALSE

\* isWaiting
IsWaiting(time) == IsActive(WaitrequestName, time)

WriteEvent(time, period) ==
    [startTime |-> time,
     endTime |-> time + period,
     data |-> <<"W","R","I","T","E"," ","A","d","d","r",":"," ","0","x">>
              \o binToHex(ValueOrX(AddressName, time))
              \o <<","," ","D","a","t","a",":"," ","0","x">>
              \o binToHex(ValueOrX(WritedataName, time)),
     label |-> <<"W","R"," ","0","x">> \o binToHex(ValueOrX(AddressName, time))]

ReadReqEvent(time, period) ==
    [startTime |-> time,
     endTime |-> time + period,
     data |-> <<"R","E","A","D"," ","R","E","Q"," ","A","d","d","r",":"," ","0","x">>
              \o binToHex(ValueOrX(AddressName, time)),
     label |-> <<"R","D"," ","R","E","Q"," ","0","x">>
               \o binToHex(ValueOrX(AddressName, time))]

\* Mutant: the read data is dated one period back, at its request.
M_ReadDataEvent_backdated(time, period) ==
    [startTime |-> time - period,
     endTime |-> time,
     data |-> <<"R","E","A","D"," ","D","A","T","A",":"," ","0","x">> \o binToHex(ValueOrX(ReaddataName, time)),
     label |-> <<"R","D"," ","D","A","T","A"," ","0","x">> \o binToHex(ValueOrX(ReaddataName, time))]

ReadDataEvent(time, period) ==
    [startTime |-> time,
     endTime |-> time + period,
     data |-> <<"R","E","A","D"," ","D","A","T","A",":"," ","0","x">>
              \o binToHex(ValueOrX(ReaddataName, time)),
     label |-> <<"R","D"," ","D","A","T","A"," ","0","x">>
               \o binToHex(ValueOrX(ReaddataName, time))]

\* Mutant: the read request is an else-branch of the write.
M_EdgeEvents_exclusive(time, period) ==
    (IF IsActive(WriteName, time) THEN <<WriteEvent(time, period)>>
     ELSE IF IsActive(ReadName, time) THEN <<ReadReqEvent(time, period)>> ELSE <<>>)
    \o (IF IsActive(ReaddatavalidName, time) THEN <<ReadDataEvent(time, period)>> ELSE <<>>)

\* The events pushed at a rising edge that is not stalled, in push order.
EdgeEvents(time, period) ==
    (IF IsActive(WriteName, time) THEN <<WriteEvent(time, period)>> ELSE <<>>)
    \o (IF IsActive(ReadName, time) THEN <<ReadReqEvent(time, period)>> ELSE <<>>)
    \o (IF IsActive(ReaddatavalidName, time) THEN <<ReadDataEvent(time, period)>> ELSE <<>>)

\* The entry of decodeAvalon up to the first test of the main for condition.
AvalonStart ==
    /\ pc = "avalon"
    /\ events' = <<>>
    /\ IF ~Supplied(ClkName) \/ Len(Get(ClkName).values) < 2
       THEN /\ pc' = "avalon_done"
            /\ UNCHANGED <<clockPeriod, i>>
       ELSE /\ pc' = "avalon_loop"
            /\ clockPeriod' = EstimatePeriod(signals[ClkName].values)
            /\ i' = 2
    /\ UNCHANGED <<signals, qTime, qResult, cfg, bitDurationTicks, mosiBits, misoBits,
                   byteStartTime, bin, hex>>
    /\ UNCHANGED <<parserVars, decoded>>

\* One iteration of for (let i = 1; i < clk.values.length; i++).
AvalonStep ==
    /\ pc = "avalon_loop"
    /\ i <= Len(signals[ClkName].values)
    /\ i' = i + 1
    /\ LET prev == signals[ClkName].values[i - 1]
           curr == signals[ClkName].values[i]
           isRising == prev.value = <<"0">> /\ curr.value = <<"1">>
       IN IF ~isRising THEN UNCHANGED events
          ELSE IF IsWaiting(curr.time) THEN UNCHANGED events
          ELSE events' = events \o EdgeEvents(curr.time, clockPeriod)
    /\ UNCHANGED <<pc, signals, qTime, qResult, cfg, bitDurationTicks, mosiBits, misoBits,
                   byteStartTime, clockPeriod, bin, hex>>
    /\ UNCHANGED <<parserVars, decoded>>

\* The for condition fails: return events.
AvalonReturn ==
    /\ pc = "avalon_loop"
    /\ i > Len(signals[ClkName].values)
    /\ pc' = "avalon_done"
    /\ UNCHANGED <<signals, qTime, qResult, cfg, bitDurationTicks, i, events, mosiBits,
                   misoBits, byteStartTime, clockPeriod, bin, hex>>
    /\ UNCHANGED <<parserVars, decoded>>

-----------------------------------------------------------------------------
(* parseVCD: strings and lines                                             *)

\* The line separator of content.split('\n').
Newline == "\n"

\* \s restricted to the blank and the newline.
IsWhite(c) == c = " " \/ c = Newline

RECURSIVE TrimStart(_)
TrimStart(s) == IF s # <<>> /\ IsWhite(s[1]) THEN TrimStart(Tail(s)) ELSE s

RECURSIVE TrimEnd(_)
TrimEnd(s) ==
    IF s # <<>> /\ IsWhite(s[Len(s)]) THEN TrimEnd(SubSeq(s, 1, Len(s) - 1)) ELSE s

\* String.prototype.trim
Trim(s) == TrimEnd(TrimStart(s))

\* String.prototype.startsWith
StartsWith(s, prefix) == Len(s) >= Len(prefix) /\ SubSeq(s, 1, Len(prefix)) = prefix

\* String.prototype.indexOf, 1-based; 0 when sub does not occur (-1 in the source).
IndexOf(s, sub) ==
    LET hits == {k \in 1..(Len(s) - Len(sub) + 1) : SubSeq(s, k, k + Len(sub) - 1) = sub}
    IN IF hits = {} THEN 0 ELSE CHOOSE k \in hits : \A m \in hits : k <= m

\* The end of the run of non-blank characters that starts at p.
RECURSIVE TokenEnd(_, _)
TokenEnd(s, p) == IF p <= Len(s) /\ ~IsWhite(s[p]) THEN TokenEnd(s, p + 1) ELSE p - 1

\* line.split(/\s+/) of a trimmed, non-empty line: its blank-separated tokens.
RECURSIVE SplitWs(_)
SplitWs(s) ==
    IF s = <<>> THEN <<>>
    ELSE LET e == TokenEnd(s, 1)
         IN <<SubSeq(s, 1, e)>> \o SplitWs(TrimStart(SubSeq(s, e + 1, Len(s))))

\* The value of an array element that does not exist.
UndefinedTok == <<"undefined">>

\* parts[k], k counted from 0 as in the source.
Part(parts, k) == IF k + 1 <= Len(parts) THEN parts[k + 1] ELSE UndefinedTok

\* Array.prototype.join
RECURSIVE Join(_, _)
Join(strs, sep) ==
    IF strs = <<>> THEN <<>>
    ELSE IF Len(strs) = 1 THEN strs[1]
    ELSE strs[1] \o sep \o Join(Tail(strs), sep)

\* text.replace(/\s+/g, '')
RECURSIVE RemoveWhite(_)
RemoveWhite(s) ==
    IF s = <<>> THEN <<>>
    ELSE (IF IsWhite(s[1]) THEN <<>> ELSE <<s[1]>>) \o RemoveWhite(Tail(s))

\* parseInt of a string: blanks, an optional sign, then the longest run of
\* decimal digits; NaN when there is no digit (also for undefined).
parseInt(s) ==
    LET t == TrimStart(s)
        signed == t # <<>> /\ t[1] \in {"-", "+"}
        body == IF signed THEN Tail(t) ELSE t
        q == RunEnd(body, 1, "d")
    IN IF s = UndefinedTok \/ q = 0 THEN NaN
       ELSE IF signed /\ t[1] = "-" THEN Num(0 - parseIntDigits(SubSeq(body, 1, q)))
       ELSE Num(parseIntDigits(SubSeq(body, 1, q)))

EndDefinitions == <<"$","e","n","d","d","e","f","i","n","i","t","i","o","n","s">>

\* The text of a sequence of lines: the lines joined by newlines.
TextOf(lines) == Join(lines, <<Newline>>)

\* Mutant: without the early return, a text with no marker is split at its
\* first line.
M_MarkerLine_noEarlyReturn(lines) ==
    LET hits == {k \in 1..Len(lines) : IndexOf(lines[k], EndDefinitions) # 0}
    IN IF hits = {} THEN 1 ELSE CHOOSE k \in hits : \A m \in hits : k <= m

\* The first line of the text that holds the marker, 0 when none does:
\* content.indexOf('$enddefinitions') located by line.
MarkerLine(lines) ==
    LET hits == {k \in 1..Len(lines) : IndexOf(lines[k], EndDefinitions) # 0}
    IN IF hits = {} THEN 0 ELSE CHOOSE k \in hits : \A m \in hits : k <= m

\* content.substring(0, endDefinitionsIdx).split('\n')
headerLines(lines) ==
    LET k == MarkerLine(lines)
    IN SubSeq(lines, 1, k - 1)
       \o <<SubSeq(lines[k], 1, IndexOf(lines[k], EndDefinitions) - 1)>>

\* content.substring(endDefinitionsIdx + '$enddefinitions'.length).split('\n')
dataLines(lines) ==
    LET k == MarkerLine(lines)
    IN <<SubSeq(lines[k], IndexOf(lines[k], EndDefinitions) + Len(EndDefinitions),
                Len(lines[k]))>>
       \o SubSeq(lines, k + 1, Len(lines))

\* A character of the class [\d\s\w].
IsTimescaleChar(c) == IsWhite(c) \/ IsWord(c)

RECURSIVE TimescaleRunEnd(_, _)
TimescaleRunEnd(s, p) ==
    IF p <= Len(s) /\ IsTimescaleChar(s[p]) THEN TimescaleRunEnd(s, p + 1) ELSE p - 1

\* header.match(/\$timescale\s+([\d\s\w]+)\s+\$end/) succeeds at position p.
\* After '$timescale' the three quantified groups must cover the whole run of
\* [\d\s\w] characters up to '$end': the run starts and ends with a blank and
\* has at least three characters.
TimescaleMatchesAt(s, p) ==
    LET word == <<"$","t","i","m","e","s","c","a","l","e">>
        end == <<"$","e","n","d">>
        a == p + Len(word)
        b == TimescaleRunEnd(s, a)
    IN /\ p + Len(word) - 1 <= Len(s)
       /\ SubSeq(s, p, p + Len(word) - 1) = word
       /\ b - a + 1 >= 3
       /\ IsWhite(s[a])
       /\ IsWhite(s[b])
       /\ b + Len(end) <= Len(s)
       /\ SubSeq(s, b + 1, b + Len(end)) = end

\* The leftmost match, if any.  The result is the captured group after trim()
\* and replace(/\s+/g, ''), i.e. the run without its blanks.
TimescaleFrom(s) ==
    LET hits == {p \in 1..Len(s) : TimescaleMatchesAt(s, p)}
        p == CHOOSE q \in hits : \A r \in hits : q <= r
        a == p + Len(<<"$","t","i","m","e","s","c","a","l","e">>)
    IN IF hits = {} THEN [ok |-> FALSE]
       ELSE [ok |-> TRUE, text |-> RemoveWhite(SubSeq(s, a, TimescaleRunEnd(s, a)))]

\* The timescale parseVCD reports for a header.
HeaderTimescale(header) ==
    LET m == TimescaleFrom(TextOf(header))
    IN IF m.ok THEN m.text ELSE DefaultTimescale

-----------------------------------------------------------------------------
(* parseVCD: the header and data loops                                     *)

\* A VCDSignal object.  order is the position of its key in the signals Map
\* (a Map iterates in insertion order, and set() on an existing key keeps the
\* key's position).
VCDSignal(id, name, type, size, values, order) ==
    [id |-> id, name |-> name, type |-> type, size |-> size, values |-> values,
     order |-> order]

\* The position a new key of the Map takes.
NextOrder(table) ==
    IF DOMAIN table = {} THEN 1
    ELSE 1 + (CHOOSE o \in {table[n].order : n \in DOMAIN table} :
                 \A n \in DOMAIN table : table[n].order <= o)

\* signals.set(name, sig)
MapSet(table, name, sig) ==
    IF name \in DOMAIN table
    THEN [table EXCEPT ![name] = [sig EXCEPT !.order = table[name].order]]
    ELSE table @@ (name :> [sig EXCEPT !.order = NextOrder(table)])

\* The parser's working state as one record.
ParserState(table, ids, scopes, time, max) ==
    [signals |-> table, idToSignal |-> ids, scopeStack |-> scopes,
     currentTime |-> time, maxTime |-> max]

\* nameParts: parts[4..] up to the first '$end'.
RECURSIVE NameParts(_, _)
NameParts(parts, k) ==
    IF k > Len(parts) \/ parts[k] = <<"$","e","n","d">> THEN <<>>
    ELSE <<parts[k]>> \o NameParts(parts, k + 1)

\* Mutant: the name is always prefixed with the joined scope stack and a dot.
M_DeclareVar_alwaysDotted(st, line) ==
    LET parts == SplitWs(line)
        type == Part(parts, 1)
        size == parseInt(Part(parts, 2))
        id == Part(parts, 3)
        baseName == Join(NameParts(parts, 5), <<" ">>)
        fullName == Join(st.scopeStack, <<".">>) \o <<".">> \o baseName
        signal == VCDSignal(id, fullName, type, size, <<>>, 0)
    IN [st EXCEPT !.signals = MapSet(st.signals, fullName, signal),
                  !.idToSignal = (id :> fullName) @@ st.idToSignal]

\* The $var branch.  idToSignal refers to the signal object by its name: the
\* object an identifier refers to is still the one in the table exactly when the
\* table's entry of that name carries the identifier (the last declaration of
\* the name and the last declaration of the identifier are then the same one).
DeclareVar(st, line) ==
    LET parts == SplitWs(line)
        type == Part(parts, 1)
        size == parseInt(Part(parts, 2))
        id == Part(parts, 3)
        baseName == Join(NameParts(parts, 5), <<" ">>)
        fullName == IF Len(st.scopeStack) > 0
                    THEN Join(st.scopeStack, <<".">>) \o <<".">> \o baseName
                    ELSE baseName
        signal == VCDSignal(id, fullName, type, size, <<>>, 0)
    IN [st EXCEPT !.signals = MapSet(st.signals, fullName, signal),
                  !.idToSignal = (id :> fullName) @@ st.idToSignal]

\* One iteration of for (let line of headerLines).
HeaderLineStep(st, raw) ==
    LET line == Trim(raw)
    IN IF line = <<>> THEN st
       ELSE IF StartsWith(line, <<"$","s","c","o","p","e">>)
       THEN (IF Len(SplitWs(line)) >= 3
             THEN [st EXCEPT !.scopeStack = Append(@, SplitWs(line)[3])]
             ELSE st)
       ELSE IF StartsWith(line, <<"$","u","p","s","c","o","p","e">>)
       THEN [st EXCEPT !.scopeStack = IF @ = <<>> THEN @ ELSE SubSeq(@, 1, Len(@) - 1)]
       ELSE IF StartsWith(line, <<"$","v","a","r">>)
       THEN DeclareVar(st, line)
       ELSE st

\* The time of an entry pushed while currentTime is cur.
EntryTime(cur) == IF cur.nan THEN NaN ELSE cur.n

\* Mutant: a change of an undeclared identifier still moves maxTime.
M_PushValue_unknownTouchesMax(st, id, value) ==
    IF id \in DOMAIN st.idToSignal
    THEN LET name == st.idToSignal[id]
         IN IF st.signals[name].id = id
            THEN [st EXCEPT !.signals[name].values =
                                Append(@, Entry(EntryTime(st.currentTime), value))]
            ELSE st
    ELSE [st EXCEPT !.maxTime = @ + 1]

\* const sig = idToSignal.get(id); if (sig) sig.values.push({time, value}).
\* A push to an object that is no longer in the table is not observable.
PushValue(st, id, value) ==
    IF id \in DOMAIN st.idToSignal
    THEN LET name == st.idToSignal[id]
         IN IF st.signals[name].id = id
            THEN [st EXCEPT !.signals[name].values =
                                Append(@, Entry(EntryTime(st.currentTime), value))]
            ELSE st
    ELSE st

\* Mutant: maxTime follows currentTime down as well as up.
M_TimeMarker_lastTime(st, line) ==
    LET t == parseInt(Tail(line))
    IN [st EXCEPT !.currentTime = t,
                  !.maxTime = IF ~t.nan THEN t.n ELSE @]

\* currentTime = parseInt(line.substring(1)); if (currentTime > maxTime) ...
\* The comparison is false when currentTime is NaN.
TimeMarker(st, line) ==
    LET t == parseInt(Tail(line))
    IN [st EXCEPT !.currentTime = t,
                  !.maxTime = IF ~t.nan /\ t.n > @ THEN t.n ELSE @]

\* One iteration of for (let line of dataLines).
DataLineStep(st, raw) ==
    LET line == Trim(raw)
    IN IF line = <<>> THEN st
       ELSE IF line[1] = "#" THEN TimeMarker(st, line)
       ELSE IF line[1] = "$" THEN st
       ELSE IF line[1] \in {"b", "B"}
       THEN LET parts == SplitWs(line)
            IN PushValue(st, Part(parts, 1), Tail(parts[1]))
       ELSE PushValue(st, Tail(line), <<line[1]>>)

-----------------------------------------------------------------------------
(* parseVCD: post-processing of bit-blasted vectors                        *)

\* The start of the run of digits that ends at position k.
RECURSIVE DigitsStart(_, _)
DigitsStart(s, k) == IF k >= 1 /\ IsDigit(s[k]) THEN DigitsStart(s, k - 1) ELSE k + 1

\* name.match(/(.+?)\s*\[(\d+)\]$/): the name ends with '[digits]' and at
\* least one character precedes the bracket.  base is match[1].trim(): the
\* lazy group and \s* split the text before the bracket at a blank, which
\* trim() removes again.
BitMatch(name) ==
    LET n == Len(name)
        ds == IF n >= 1 /\ name[n] = "]" THEN DigitsStart(name, n - 1) ELSE n + 1
    IN IF ds <= n - 1 /\ ds - 1 >= 2 /\ name[ds - 1] = "["
       THEN [ok |-> TRUE,
             base |-> Trim(SubSeq(name, 1, ds - 2)),
             bitIdx |-> parseIntDigits(SubSeq(name, ds, n - 1))]
       ELSE [ok |-> FALSE]

\* sig.size === 1
IsOne(size) == ~size.nan /\ size.n = 1

\* match && sig.size === 1
IsBitOf(table, name, base) ==
    /\ BitMatch(name).ok
    /\ IsOne(table[name].size)
    /\ BitMatch(name).base = base

\* The keys of vectorGroups.
GroupBases(table) ==
    {BitMatch(n).base : n \in {m \in DOMAIN table : BitMatch(m).ok /\ IsOne(table[m].size)}}

\* vectorGroups.get(baseName): bit index -> name of the signal set last for
\* that index in the iteration of the table.
Bits(table, base) ==
    LET members == {n \in DOMAIN table : IsBitOf(table, n, base)}
        idxs == {BitMatch(n).bitIdx : n \in members}
    IN [k \in idxs |->
          CHOOSE n \in members :
             /\ BitMatch(n).bitIdx = k
             /\ \A m \in members :
                   BitMatch(m).bitIdx = k => table[m].order <= table[n].order]

SetMax(S) == CHOOSE x \in S : \A y \in S : y <= x
SetMin(S) == CHOOSE x \in S : \A y \in S : x <= y

\* Mutant: the comparator is b - a, the times come out descending.
RECURSIVE M_SortedTimes_descending(_)
M_SortedTimes_descending(S) ==
    IF S = {} THEN <<>> ELSE <<SetMax(S)>> \o M_SortedTimes_descending(S \ {SetMax(S)})

\* Array.from(allTimes).sort((a, b) => a - b)
RECURSIVE SortedTimes(_)
SortedTimes(S) ==
    IF S = {} THEN <<>> ELSE <<SetMin(S)>> \o SortedTimes(S \ {SetMin(S)})

\* Number.prototype.toString for a non-negative integer.
RECURSIVE ToDecimal(_)
ToDecimal(n) ==
    IF n < 10 THEN <<DigitChars[n + 1]>>
    ELSE ToDecimal(n \div 10) \o <<DigitChars[(n % 10) + 1]>>

\* valStr: for (let i = maxBit; i >= minBit; i--)
RECURSIVE CompositeValue(_, _, _, _, _)
CompositeValue(table, bits, k, minBit, time) ==
    IF k < minBit THEN <<>>
    ELSE (IF k \in DOMAIN bits
          THEN getSignalValueAt(table[bits[k]], 2 * time)
          ELSE <<"x">>)
         \o CompositeValue(table, bits, k - 1, minBit, time)

\* Mutant: the composite is inserted and the single-bit members stay.
M_MergeGroup_keepsBits(table, original, base) ==
    LET bits == Bits(original, base)
    IN IF Cardinality(DOMAIN bits) > 1
       THEN LET maxBit == SetMax(DOMAIN bits)
                minBit == SetMin(DOMAIN bits)
                allTimes == UNION {{original[bits[k]].values[e].time :
                                      e \in 1..Len(original[bits[k]].values)} :
                                   k \in DOMAIN bits}
                sortedTimes == SortedTimes(allTimes)
                compositeValues ==
                    [e \in 1..Len(sortedTimes) |->
                       Entry(sortedTimes[e],
                             CompositeValue(original, bits, maxBit, minBit, sortedTimes[e]))]
                compositeName == base \o <<"[">> \o ToDecimal(maxBit) \o <<":">>
                                 \o ToDecimal(minBit) \o <<"]">>
                composite == VCDSignal(<<"c","o","m","p","o","s","i","t","e","_">> \o base, compositeName, <<"w","i","r","e">>,
                                       Num(maxBit - minBit + 1), compositeValues, 0)
                withComposite == MapSet(table, compositeName, composite)
            IN withComposite
       ELSE table

\* The body of for (const [baseName, bits] of vectorGroups) for one group.
\* bits holds the signal objects found by the first loop, so the group is read
\* from the table as it was before any merge (original) while set and delete
\* act on the table as it is now.
MergeGroup(table, original, base) ==
    LET bits == Bits(original, base)
    IN IF Cardinality(DOMAIN bits) > 1
       THEN LET maxBit == SetMax(DOMAIN bits)
                minBit == SetMin(DOMAIN bits)
                allTimes == UNION {{original[bits[k]].values[e].time :
                                      e \in 1..Len(original[bits[k]].values)} :
                                   k \in DOMAIN bits}
                sortedTimes == SortedTimes(allTimes)
                compositeValues ==
                    [e \in 1..Len(sortedTimes) |->
                       Entry(sortedTimes[e],
                             CompositeValue(original, bits, maxBit, minBit, sortedTimes[e]))]
                compositeName == base \o <<"[">> \o ToDecimal(maxBit) \o <<":">>
                                 \o ToDecimal(minBit) \o <<"]">>
                composite == VCDSignal(<<"c","o","m","p","o","s","i","t","e","_">> \o base, compositeName, <<"w","i","r","e">>,
                                       Num(maxBit - minBit + 1), compositeValues, 0)
                withComposite == MapSet(table, compositeName, composite)
                removed == {bits[k] : k \in DOMAIN bits}
            IN [n \in (DOMAIN withComposite) \ removed |-> withComposite[n]]
       ELSE table

\* The order of a group in vectorGroups: that of its first signal in the table.
GroupOrder(table, base) ==
    SetMin({table[n].order : n \in {m \in DOMAIN table : IsBitOf(table, m, base)}})

\* The groups are merged in the order vectorGroups iterates them.
RECURSIVE MergeGroups(_, _, _)
MergeGroups(table, original, bases) ==
    IF bases = {} THEN table
    ELSE LET first == CHOOSE b \in bases :
                         \A c \in bases : GroupOrder(original, b) <= GroupOrder(original, c)
         IN MergeGroups(MergeGroup(table, original, first), original, bases \ {first})

\* Post-process: detect bit-blasted vectors and merge them.
Reconstruct(table) == MergeGroups(table, table, GroupBases(table))

-----------------------------------------------------------------------------
(* SpecUART: one decodeUART call                                           *)

\* Longest idle gap, in bit periods, between two generated frames.
MaxGap == 2

UARTConfig(baudRate, timescaleStr) ==
    [baudRate |-> baudRate, timescaleStr |-> timescaleStr]

\* 9600 baud on a 1ns tick: 104167 ticks per bit.
Config9600 == UARTConfig(9600, <<"1","n","s">>)
\* 1, 2 and 3 (2.5 rounded up) ticks per bit on a 1us tick.
Config1 == UARTConfig(1000000, <<"1","u","s">>)
Config2 == UARTConfig(500000, <<"1","u","s">>)
Config3 == UARTConfig(400000, <<"1","u","s">>)
\* A quarter of a tick per bit, raised to 1 by Math.max.
ConfigFast == UARTConfig(4000000, <<"1","u","s">>)
\* No unit after a single digit: the regular expression does not match.
ConfigNoMatch == UARTConfig(9600, <<"1">>)
\* Digits only: \d+ gives back its last digit, val = 10 and the unit '0' is unknown.
ConfigDigits == UARTConfig(1000, <<"1","0","0">>)

\* The frames generated for the line.
UartBytes == {65, 0, 255, 32, 126, 127, 10}

\* The line levels of one frame, one per bit period: start bit, the data bits
\* least significant first, stop bit.
FrameLevels(byte) ==
    <<"0">> \o [b \in 1..DataBitCount |-> IF (byte \div Pow2(b - 1)) % 2 = 1 THEN "1" ELSE "0"]
            \o <<"1">>

\* The frame with data bit b (0..7) replaced by the marker m.
Corrupt(levels, b, m) == [levels EXCEPT ![b + 2] = m]

\* The history recorded for a line that idles high from tick 0 and then takes
\* levels[k] during the k-th bit period after tick t0: one entry per change.
RECURSIVE Changes(_, _, _, _, _)
Changes(levels, k, last, bitDur, t0) ==
    IF k > Len(levels) THEN <<>>
    ELSE (IF levels[k] # last THEN <<Entry(t0 + (k - 1) * bitDur, <<levels[k]>>)>> ELSE <<>>)
         \o Changes(levels, k + 1, levels[k], bitDur, t0)

Line(levels, bitDur, t0) == <<Entry(0, <<"1">>)>> \o Changes(levels, 1, "1", bitDur, t0)

FirstFrames ==
    {FrameLevels(byte) : byte \in UartBytes}
    \cup {Corrupt(FrameLevels(byte), b, m) :
            byte \in UartBytes, b \in 0..(DataBitCount - 1), m \in {"x", "z"}}

SecondFrames == {<<>>} \cup {FrameLevels(byte) : byte \in UartBytes}

\* One or two frames, the first possibly with an unknown data bit.
FrameLines(bitDur) ==
    {Line(f1 \o Repeat("1", gap) \o f2, bitDur, bitDur) :
        f1 \in FirstFrames, gap \in 0..MaxGap, f2 \in SecondFrames}

\* 'A' (0x41) at 9600 baud on a 1ns tick, start bit at tick 0: bit boundaries at
\* k * 1e9 / 9600 ns, rounded.
FrameA9600 ==
    <<Entry(0, <<"1">>), Entry(0, <<"0">>), Entry(104167, <<"1">>), Entry(208333, <<"0">>),
      Entry(729167, <<"1">>), Entry(833333, <<"0">>), Entry(937500, <<"1">>)>>

\* rx of "#0 1! #10 0! #25 1! #12 0!": the tick goes back after the start bit of
\* a frame, to a tick inside that frame.
BackwardsFrameLine ==
    <<Entry(0, <<"1">>), Entry(10, <<"0">>), Entry(25, <<"1">>), Entry(12, <<"0">>)>>

UartInputs ==
    {[cfg |-> Config9600, values |-> FrameA9600]}
    \cup {[cfg |-> Config1, values |-> BackwardsFrameLine]}
    \cup {[cfg |-> Config9600, values |-> Line(FrameLevels(65), 104167, 104167)]}
    \cup {[cfg |-> Config1, values |-> h] : h \in HistoriesOver({<<"0">>, <<"1">>, <<"x">>})}
    \cup {[cfg |-> c, values |-> h] :
            c \in {ConfigFast, ConfigNoMatch, ConfigDigits},
            h \in {g \in HistoriesOver({<<"0">>, <<"1">>}) : Len(g) <= 2}}
    \cup {[cfg |-> Config1, values |-> h] : h \in FrameLines(1)}
    \cup {[cfg |-> Config2, values |-> h] : h \in FrameLines(2)}
    \cup {[cfg |-> Config3, values |-> h] : h \in FrameLines(3)}

InitUART ==
    /\ pc = "uart"
    /\ \E input \in UartInputs :
          /\ signals = RxName :> Signal(1, input.values)
          /\ cfg = input.cfg
    /\ bin = <<>>
    /\ content = <<>>
    /\ Fresh

NextUART == UARTStart \/ UARTStep \/ UARTReturn

SpecUART == InitUART /\ [][NextUART]_vars

-----------------------------------------------------------------------------
(* SpecSPI: one decodeSPI call                                             *)

\* Number of entries of a generated clock history: two bytes' worth of edges
\* of either polarity.
MaxClockEntries == 34

SPIConfig(cpol, cpha) == [cpol |-> cpol, cpha |-> cpha]

SPIConfigs == {SPIConfig(cpol, cpha) : cpol \in {0, 1}, cpha \in {0, 1}}

\* A clock toggling at every tick from tick 0, starting at level first.
ClockWave(first, n) ==
    [k \in 1..n |-> Entry(k - 1, IF (k % 2 = 1) = (first = 0) THEN <<"0">> ELSE <<"1">>)]

\* The clock with the k-th entry recorded as unknown.
Glitch(wave, k) == [wave EXCEPT ![k] = Entry(wave[k].time, <<"x">>)]

SclkHistories ==
    {ClockWave(0, MaxClockEntries), ClockWave(1, MaxClockEntries),
     Glitch(ClockWave(0, MaxClockEntries), ByteBits)}

\* The 8 bits of a byte, most significant first.
ByteLevels(byte) ==
    [b \in 1..ByteBits |-> IF (byte \div Pow2(ByteBits - b)) % 2 = 1 THEN "1" ELSE "0"]

\* A data line that takes levels[k] for two ticks from tick t0 + 2 * (k - 1):
\* one entry per change, the first level always recorded.
DataLine(levels, t0) == Changes(levels, 1, "none", 2, t0)

MosiLevels ==
    {ByteLevels(178) \o ByteLevels(0) \o <<"0">>,
     ByteLevels(255) \o ByteLevels(1) \o <<"1">>,
     ByteLevels(128) \o ByteLevels(178) \o <<"0">>,
     [ByteLevels(178) \o ByteLevels(90) \o <<"0">> EXCEPT ![3] = "x"]}

MosiHistories == {DataLine(l, t0) : l \in MosiLevels, t0 \in {0, 1}}

MisoHistories ==
    {DataLine(ByteLevels(90) \o ByteLevels(195) \o <<"1">>, 0),
     DataLine([ByteLevels(60) \o ByteLevels(255) \o <<"z">> EXCEPT ![12] = "z"], 1)}

\* Chip-select: active throughout, released for a while inside the first or
\* the second byte, first recorded late, never active.
CsHistories ==
    {<<Entry(0, <<"0">>)>>,
     <<Entry(0, <<"0">>), Entry(6, <<"1">>), Entry(9, <<"0">>)>>,
     <<Entry(0, <<"0">>), Entry(20, <<"x">>), Entry(21, <<"0">>)>>,
     <<Entry(3, <<"0">>)>>,
     <<Entry(0, <<"1">>)>>}

\* A call's lines: a function from the supplied line names to their signals.
\* An argument is Given(history), or Absent for a line that was not supplied.
Absent == <<>>

Given(values) == <<values>>

Lines(sclk, mosi, miso, cs) ==
    LET all == (SclkName :> sclk) @@ (MosiName :> mosi) @@ (MisoName :> miso)
               @@ (CsName :> cs)
        given == {n \in DOMAIN all : Len(all[n]) = 1}
    IN [n \in given |-> Signal(1, all[n][1])]

\* cpol=0, cpha=0, eight rising edges, MOSI carrying 1,0,1,1,0,0,1,0.
ScenarioB2 ==
    [cfg |-> SPIConfig(0, 0),
     lines |-> Lines(Given(ClockWave(0, 2 * ByteBits + 1)),
                     Given(DataLine(ByteLevels(178), 0)), Absent, Absent)]

SpiInputs ==
    {ScenarioB2}
    \cup {[cfg |-> c, lines |-> Lines(Given(sclk), mosi, miso, cs)] :
            c \in SPIConfigs, sclk \in SclkHistories,
            mosi \in {Absent} \cup {Given(h) : h \in MosiHistories},
            miso \in {Absent} \cup {Given(h) : h \in MisoHistories},
            cs \in {Absent} \cup {Given(h) : h \in CsHistories}}
    \cup {[cfg |-> c, lines |-> Lines(sclk, Given(DataLine(ByteLevels(178), 0)),
                                      Absent, Absent)] :
            c \in SPIConfigs,
            sclk \in {Absent} \cup {Given(h) : h \in HistoriesOver({<<"0">>, <<"1">>})}}

InitSPI ==
    /\ pc = "spi"
    /\ \E input \in SpiInputs :
          /\ signals = input.lines
          /\ cfg = input.cfg
    /\ bin = <<>>
    /\ content = <<>>
    /\ Fresh

NextSPI == SPIStart \/ SPIStep \/ SPIReturn

SpecSPI == InitSPI /\ [][NextSPI]_vars

-----------------------------------------------------------------------------
(* SpecAvalon: one decodeAvalon call                                       *)

\* Number of entries of a generated Avalon clock history.
MaxAvalonClockEntries == 9

\* A clock of period 3: low for two ticks, high for one.
SlowClock(n) ==
    [k \in 1..n |-> IF k % 2 = 1 THEN Entry(3 * (k \div 2), <<"0">>)
                    ELSE Entry(3 * (k \div 2) - 1, <<"1">>)]

ClkHistories ==
    {ClockWave(0, MaxAvalonClockEntries), ClockWave(1, MaxAvalonClockEntries),
     Glitch(ClockWave(0, MaxAvalonClockEntries), 3), SlowClock(MaxAvalonClockEntries)}

WriteHistories ==
    {<<Entry(0, <<"0">>), Entry(1, <<"1">>), Entry(2, <<"0">>), Entry(5, <<"1">>)>>,
     <<Entry(0, <<"1">>)>>}

ReadHistories ==
    {<<Entry(0, <<"0">>), Entry(3, <<"1">>), Entry(4, <<"0">>)>>,
     <<Entry(0, <<"1">>), Entry(2, <<"x">>), Entry(5, <<"1">>)>>}

ReaddatavalidHistories ==
    {<<Entry(0, <<"0">>), Entry(5, <<"1">>), Entry(6, <<"0">>)>>,
     <<Entry(0, <<"1">>)>>}

\* Stalled across the edge at tick 1, always stalled, stalled from tick 4 on.
WaitrequestHistories ==
    {<<Entry(0, <<"0">>), Entry(1, <<"1">>), Entry(2, <<"0">>)>>,
     <<Entry(0, <<"1">>)>>,
     <<Entry(4, <<"1">>)>>}

AddressHistories ==
    {<<Entry(0, <<"0","0","1","1">>), Entry(3, <<"1","1","1","1">>),
       Entry(5, <<"0","x","1","z">>), Entry(7, <<"z","z","z","z">>)>>}

WritedataHistories == {<<Entry(0, <<"1","0","1","0">>), Entry(4, <<"0">>)>>}

ReaddataHistories == {<<Entry(2, <<"0","1","0","1">>)>>}

Option(histories) == {Absent} \cup {Given(h) : h \in histories}

\* A call's lines: the supplied ones, from a function of line names to
\* Given(history) or Absent.
AvalonLines(args) ==
    [n \in {m \in DOMAIN args : Len(args[m]) = 1} |-> Signal(1, args[n][1])]

AvalonArgs(clk, address, read, write, writedata, readdata, waitrequest, readdatavalid) ==
    (ClkName :> clk) @@ (AddressName :> address) @@ (ReadName :> read)
    @@ (WriteName :> write) @@ (WritedataName :> writedata)
    @@ (ReaddataName :> readdata) @@ (WaitrequestName :> waitrequest)
    @@ (ReaddatavalidName :> readdatavalid)

\* clk of "#0 0! #1 1! 0! 1! #2 0! #3 1!": two rising edges recorded at one tick.
RepeatedTickClock ==
    <<Entry(0, <<"0">>), Entry(1, <<"1">>), Entry(1, <<"0">>), Entry(1, <<"1">>),
      Entry(2, <<"0">>), Entry(3, <<"1">>)>>

\* clk of "#3 0! #4 1! #1 0! #2 1!": the second rising edge recorded at an
\* earlier tick than the first.
BackwardsClock ==
    <<Entry(3, <<"0">>), Entry(4, <<"1">>), Entry(1, <<"0">>), Entry(2, <<"1">>)>>

AvalonInputs ==
    {AvalonLines(AvalonArgs(Given(clk), address, read, write, writedata, readdata,
                            waitrequest, readdatavalid)) :
        clk \in ClkHistories, address \in Option(AddressHistories),
        read \in Option(ReadHistories), write \in Option(WriteHistories),
        writedata \in Option(WritedataHistories), readdata \in Option(ReaddataHistories),
        waitrequest \in Option(WaitrequestHistories),
        readdatavalid \in Option(ReaddatavalidHistories)}
    \cup {AvalonLines(AvalonArgs(clk, Absent, Given(<<Entry(0, <<"1">>)>>), write, Absent,
                                 Absent, waitrequest, Absent)) :
            clk \in Option(HistoriesOver({<<"0">>, <<"1">>})
                            \cup {RepeatedTickClock, BackwardsClock}),
            write \in Option({<<Entry(1, <<"1">>)>>}),
            waitrequest \in Option({<<Entry(2, <<"1">>)>>})}

InitAvalon ==
    /\ pc = "avalon"
    /\ signals \in AvalonInputs
    /\ cfg = Undefined
    /\ bin = <<>>
    /\ content = <<>>
    /\ Fresh

NextAvalon == AvalonStart \/ AvalonStep \/ AvalonReturn

SpecAvalon == InitAvalon /\ [][NextAvalon]_vars

-----------------------------------------------------------------------------
(* parseVCD: the call                                                      *)

\* The entry of parseVCD: the search for the marker and the timescale.
ParseStart ==
    /\ pc = "parse"
    /\ IF MarkerLine(content) = 0
       THEN /\ pc' = "parsed"
            /\ UNCHANGED <<timescale, lineNo>>
       ELSE /\ pc' = "parse_header"
            /\ timescale' = HeaderTimescale(headerLines(content))
            /\ lineNo' = 1
    /\ UNCHANGED <<signals, content, scopeStack, idToSignal, currentTime, maxTime>>
    /\ UNCHANGED <<qTime, qResult, cfg, bitDurationTicks, i, events, mosiBits, misoBits,
                   byteStartTime, clockPeriod, bin, hex, decoded>>

\* One iteration of the loop over headerLines.
ParseHeaderLine ==
    /\ pc = "parse_header"
    /\ lineNo <= Len(headerLines(content))
    /\ LET st == HeaderLineStep(
                    ParserState(signals, idToSignal, scopeStack, currentTime, maxTime),
                    headerLines(content)[lineNo])
       IN /\ signals' = st.signals
          /\ idToSignal' = st.idToSignal
          /\ scopeStack' = st.scopeStack
    /\ lineNo' = lineNo + 1
    /\ UNCHANGED <<pc, content, timescale, currentTime, maxTime>>
    /\ UNCHANGED <<qTime, qResult, cfg, bitDurationTicks, i, events, mosiBits, misoBits,
                   byteStartTime, clockPeriod, bin, hex, decoded>>

\* The header loop ends: const dataLines = data.split('\n').
ParseHeaderEnd ==
    /\ pc = "parse_header"
    /\ lineNo > Len(headerLines(content))
    /\ pc' = "parse_data"
    /\ lineNo' = 1
    /\ UNCHANGED <<signals, content, scopeStack, idToSignal, timescale, currentTime,
                   maxTime>>
    /\ UNCHANGED <<qTime, qResult, cfg, bitDurationTicks, i, events, mosiBits, misoBits,
                   byteStartTime, clockPeriod, bin, hex, decoded>>

\* One iteration of the loop over dataLines.
ParseDataLine ==
    /\ pc = "parse_data"
    /\ lineNo <= Len(dataLines(content))
    /\ LET st == DataLineStep(
                    ParserState(signals, idToSignal, scopeStack, currentTime, maxTime),
                    dataLines(content)[lineNo])
       IN /\ signals' = st.signals
          /\ currentTime' = st.currentTime
          /\ maxTime' = st.maxTime
    /\ lineNo' = lineNo + 1
    /\ UNCHANGED <<pc, content, scopeStack, idToSignal, timescale>>
    /\ UNCHANGED <<qTime, qResult, cfg, bitDurationTicks, i, events, mosiBits, misoBits,
                   byteStartTime, clockPeriod, bin, hex, decoded>>

\* The data loop ends: the post-processing pass, then return.
ParsePostProcess ==
    /\ pc = "parse_data"
    /\ lineNo > Len(dataLines(content))
    /\ signals' = Reconstruct(signals)
    /\ pc' = "parsed"
    /\ UNCHANGED <<content, lineNo, scopeStack, idToSignal, timescale, currentTime,
                   maxTime>>
    /\ UNCHANGED <<qTime, qResult, cfg, bitDurationTicks, i, events, mosiBits, misoBits,
                   byteStartTime, clockPeriod, bin, hex, decoded>>

\* The post-processing pass applied once more to the returned table.
ReconstructAgain ==
    /\ pc = "parsed"
    /\ signals' = Reconstruct(signals)
    /\ pc' = "reconstructed_again"
    /\ UNCHANGED <<content, lineNo, scopeStack, idToSignal, timescale, currentTime,
                   maxTime>>
    /\ UNCHANGED <<qTime, qResult, cfg, bitDurationTicks, i, events, mosiBits, misoBits,
                   byteStartTime, clockPeriod, bin, hex, decoded>>

-----------------------------------------------------------------------------
(* parseVCD as a function of the text                                      *)

\* The parser's state at the entry of parseVCD.
InitialParserState == ParserState(<<>>, <<>>, <<>>, Num(0), 0)

RECURSIVE HeaderLoop(_, _, _)
HeaderLoop(st, lines, k) ==
    IF k > Len(lines) THEN st ELSE HeaderLoop(HeaderLineStep(st, lines[k]), lines, k + 1)

RECURSIVE DataLoop(_, _, _)
DataLoop(st, lines, k) ==
    IF k > Len(lines) THEN st ELSE DataLoop(DataLineStep(st, lines[k]), lines, k + 1)

\* The parser's state when the data loop ends, for a text that has the marker.
BeforePostProcess(lines) ==
    DataLoop(HeaderLoop(InitialParserState, headerLines(lines), 1), dataLines(lines), 1)

\* The value parseVCD returns: { timescale, signals, maxTime }.
parseVCD(lines) ==
    IF MarkerLine(lines) = 0
    THEN [timescale |-> DefaultTimescale, signals |-> <<>>, maxTime |-> 0]
    ELSE [timescale |-> HeaderTimescale(headerLines(lines)),
          signals |-> Reconstruct(BeforePostProcess(lines).signals),
          maxTime |-> BeforePostProcess(lines).maxTime]

-----------------------------------------------------------------------------
(* SpecParse: one parseVCD call                                            *)

\* Largest number of data lines taken from a generated data region.
MaxDataLines == 9

HeaderScenario ==
    <<<<"$","t","i","m","e","s","c","a","l","e"," ","1","n","s"," ","$","e","n","d">>,
      <<"$","s","c","o","p","e"," ","m","o","d","u","l","e"," ","t","o","p"," ","$","e","n","d">>,
      <<"$","v","a","r"," ","w","i","r","e"," ","1"," ","!"," ","c","l","k"," ","$","e","n","d">>,
      <<"$","u","p","s","c","o","p","e"," ","$","e","n","d">>>>

HeaderBits ==
    <<<<"$","t","i","m","e","s","c","a","l","e"," ","1","0"," ","p","s"," ","$","e","n","d">>,
      <<"$","v","a","r"," ","w","i","r","e"," ","1"," ","!"," ","d"," ","[","1","]"," ","$","e","n","d">>,
      <<"$","v","a","r"," ","w","i","r","e"," ","1"," ","#"," ","d"," ","[","0","]"," ","$","e","n","d">>,
      <<"$","v","a","r"," ","w","i","r","e"," ","1"," ","%"," ","e","[","2","]"," ","$","e","n","d">>,
      <<"$","v","a","r"," ","w","i","r","e"," ","4"," ","&"," ","b","u","s"," ","[","3",":","0","]"," ","$","e","n","d">>>>

HeaderGap ==
    <<<<"$","s","c","o","p","e"," ","m","o","d","u","l","e"," ","t","o","p"," ","$","e","n","d">>,
      <<"$","v","a","r"," ","w","i","r","e"," ","1"," ","!"," ","d","[","3","]"," ","$","e","n","d">>,
      <<"$","v","a","r"," ","r","e","g"," ","1"," ","#"," ","d","[","0","]"," ","$","e","n","d">>,
      <<"$","v","a","r"," ","w","i","r","e"," ","2"," ","%"," ","v","[","1","]"," ","$","e","n","d">>,
      <<"$","v","a","r"," ","w","i","r","e"," ","1"," ","&"," ","v","[","0","]"," ","$","e","n","d">>,
      <<"$","u","p","s","c","o","p","e"," ","$","e","n","d">>>>

HeaderShadow ==
    <<<<"$","v","a","r"," ","w","i","r","e"," ","1"," ","!"," ","d","[","1","]"," ","$","e","n","d">>,
      <<"$","v","a","r"," ","w","i","r","e"," ","1"," ","#"," ","d"," ","[","1","]"," ","$","e","n","d">>,
      <<"$","v","a","r"," ","w","i","r","e"," ","1"," ","%"," ","d","[","0","]"," ","$","e","n","d">>,
      <<"$","v","a","r"," ","w","i","r","e"," ","1"," ","&"," ","d"," ","[","0","]"," ","$","e","n","d">>>>

HeaderShadowOne ==
    <<<<"$","v","a","r"," ","w","i","r","e"," ","1"," ","!"," ","d","[","1","]"," ","$","e","n","d">>,
      <<"$","v","a","r"," ","w","i","r","e"," ","1"," ","#"," ","d"," ","[","1","]"," ","$","e","n","d">>,
      <<"$","v","a","r"," ","w","i","r","e"," ","1"," ","%"," ","c","l","k"," ","$","e","n","d">>>>

HeaderAlias ==
    <<<<"$","t","i","m","e","s","c","a","l","e"," ","$","e","n","d">>,
      <<"$","v","a","r"," ","w","i","r","e"," ","1"," ","!"," ","a"," ","$","e","n","d">>,
      <<"$","v","a","r"," ","w","i","r","e"," ","1"," ","!"," ","b"," ","$","e","n","d">>,
      <<"$","v","a","r"," ","w","i","r","e"," ","1"," ","#"," ","c"," ","$","e","n","d">>,
      <<"$","v","a","r"," ","w","i","r","e"," ","1"," ","%"," ","c"," ","$","e","n","d">>>>

\* Nested scopes, a declaration after a scope is closed, and one $upscope more
\* than there are open scopes.
HeaderScopes ==
    <<<<"$","s","c","o","p","e"," ","m","o","d","u","l","e"," ","t","o","p"," ","$","e","n","d">>,
      <<"$","v","a","r"," ","w","i","r","e"," ","1"," ","!"," ","c","l","k"," ","$","e","n","d">>,
      <<"$","s","c","o","p","e"," ","m","o","d","u","l","e"," ","u","1"," ","$","e","n","d">>,
      <<"$","v","a","r"," ","w","i","r","e"," ","1"," ","#"," ","e","n"," ","$","e","n","d">>,
      <<"$","u","p","s","c","o","p","e"," ","$","e","n","d">>,
      <<"$","v","a","r"," ","r","e","g"," ","1"," ","%"," ","r","s","t"," ","$","e","n","d">>,
      <<"$","u","p","s","c","o","p","e"," ","$","e","n","d">>,
      <<"$","u","p","s","c","o","p","e"," ","$","e","n","d">>,
      <<"$","v","a","r"," ","w","i","r","e"," ","4"," ","&"," ","q"," ","$","e","n","d">>>>

HeaderJoined ==
    <<<<"$","t","i","m","e","s","c","a","l","e"," ","1"," ","u","s"," ","$","e","n","d">>,
      <<"$","v","a","r"," ","w","i","r","e"," ","1"," ","!"," ","q","[","1","]"," ","$","e","n","d">>,
      <<"$","v","a","r"," ","w","i","r","e"," ","1"," ","#"," ","q","[","0","]"," ","$","e","n","d"," ","$","e","n","d","d","e","f","i","n","i","t","i","o","n","s"," ","$","e","n","d">>>>

DataScenario ==
    <<<<"#","0">>,
      <<"0","!">>,
      <<"#","5">>,
      <<"1","!">>,
      <<"#","1","0">>,
      <<"0","!">>,
      <<"#","1","5">>,
      <<"1","!">>>>

DataBits ==
    <<<<"#","0">>,
      <<"1","!">>,
      <<"0","#">>,
      <<"#","2">>,
      <<"0","!">>,
      <<"1","%">>,
      <<"#","4">>,
      <<"1","#">>,
      <<"b","1","0","1","0"," ","&">>>>

DataBackwards ==
    <<<<"#","5">>,
      <<"1","!">>,
      <<"#","3">>,
      <<"0","!">>,
      <<"0","#">>,
      <<"#","8">>,
      <<"1","#">>>>

DataDump ==
    <<<<"$","d","u","m","p","v","a","r","s">>,
      <<"x","!">>,
      <<"z","#">>,
      <<"$","e","n","d">>,
      <<"#","1">>,
      <<"1","!">>,
      <<"1","#">>,
      <<"0","%">>,
      <<"0","&">>>>

Headers ==
    {HeaderScenario, HeaderBits, HeaderGap, HeaderShadow, HeaderShadowOne, HeaderAlias,
     HeaderScopes, HeaderJoined}

DataRegions ==
    {SubSeq(d, 1, IF Len(d) < MaxDataLines THEN Len(d) ELSE MaxDataLines) :
        d \in {DataScenario, DataBits, DataBackwards, DataDump}}

\* Lines that are not well-formed declarations.
HeaderProbes ==
    {<<"$","v","a","r"," ","w","i","r","e"," ","1">>,
     <<"$","v","a","r"," ","w","i","r","e">>,
     <<"$","v","a","r">>,
     <<"$","v","a","r"," ","w","i","r","e"," ","1"," ","!">>,
     <<"$","v","a","r"," ","w","i","r","e"," ","x"," ","&"," ","n"," ","$","e","n","d">>,
     <<"$","s","c","o","p","e">>,
     <<"$","u","p","s","c","o","p","e"," ","$","e","n","d">>,
     <<"g","a","r","b","a","g","e">>}

\* Changes of undeclared identifiers, lines without an identifier, time
\* markers with trailing text, blank and command lines.
DataProbes ==
    {<<"1","?">>,
     <<"0","z","z">>,
     <<"b","1","1"," ","?">>,
     <<"b","1","0","1">>,
     <<"B","0"," ","!">>,
     <<"#","7","q">>,
     <<"#","1","2">>,
     <<>>,
     <<"$","c","o","m","m","e","n","t">>,
     <<"x">>}

\* A time marker without a digit: parseInt gives NaN.
NaNMarker == <<"#","z","z">>

\* The sequence with the line put in before position k.
InsertAt(lines, k, line) ==
    SubSeq(lines, 1, k - 1) \o <<line>> \o SubSeq(lines, k, Len(lines))

\* The sequence without its k-th line.
RemoveAt(lines, k) == SubSeq(lines, 1, k - 1) \o SubSeq(lines, k + 1, Len(lines))

MarkerText == <<<<"$","e","n","d","d","e","f","i","n","i","t","i","o","n","s"," ","$","e","n","d">>>>

\* A header, the marker line (unless the header's last line holds the marker)
\* and a data region.
Dump(h, d) == IF MarkerLine(h) # 0 THEN h \o d ELSE h \o MarkerText \o d

ParseInputs ==
    {Dump(h, d) : h \in Headers, d \in DataRegions}
    \cup {Dump(InsertAt(h, k, p), d) :
            h \in Headers, d \in DataRegions, p \in HeaderProbes, k \in 1..2}
    \cup {Dump(h, InsertAt(d, k, p)) :
            h \in Headers, d \in DataRegions, p \in DataProbes, k \in {1, 3, 4, 6}}
    \cup {Dump(h, d \o <<NaNMarker>>) : h \in Headers, d \in DataRegions}
    \cup {h \o d : h \in Headers \ {HeaderJoined}, d \in DataRegions}

InitParse ==
    /\ pc = "parse"
    /\ content \in ParseInputs
    /\ signals = <<>>
    /\ cfg = Undefined
    /\ bin = <<>>
    /\ Fresh

NextParse ==
    ParseStart \/ ParseHeaderLine \/ ParseHeaderEnd \/ ParseDataLine \/ ParsePostProcess

SpecParse == InitParse /\ [][NextParse]_vars

\* parseVCD followed by a second application of the post-processing pass.
SpecReconstruct == InitParse /\ [][NextParse \/ ReconstructAgain]_vars

-----------------------------------------------------------------------------
(* SpecSession: a dump is parsed, then decoded by any decoders in any order *)

\* Largest number of decoder calls made on one table.
MaxCalls == 3

\* The signals a protocol row can name, with the identifier code each gets in
\* the dump.
SessionNames ==
    <<RxName, SclkName, MosiName, MisoName, CsName, ClkName, AddressName, ReadName,
      WriteName, WritedataName, ReaddataName, WaitrequestName, ReaddatavalidName>>

IdCodes == <<"!", "#", "%", "&", "'", "(", ")", "*", "+", ",", "-", ".", "/">>

\* $var wire <size> <id> <name> $end
VarLine(size, id, name) ==
    <<"$","v","a","r"," ","w","i","r","e"," ">> \o ToDecimal(size) \o <<" ", id, " ">> \o name \o <<" ","$","e","n","d">>

\* The time marker and the value-change line of one entry.
ChangeLines(id, entry) ==
    <<<<"#">> \o ToDecimal(entry.time),
      IF Len(entry.value) = 1 THEN entry.value \o <<id>>
      ELSE <<"b">> \o entry.value \o <<" ", id>>>>

RECURSIVE HistoryLines(_, _, _)
HistoryLines(id, values, k) ==
    IF k > Len(values) THEN <<>>
    ELSE ChangeLines(id, values[k]) \o HistoryLines(id, values, k + 1)

RECURSIVE VarLines(_, _)
VarLines(lines, k) ==
    IF k > Len(SessionNames) THEN <<>>
    ELSE (IF SessionNames[k] \in DOMAIN lines
          THEN <<VarLine(lines[SessionNames[k]].size, IdCodes[k], SessionNames[k])>>
          ELSE <<>>)
         \o VarLines(lines, k + 1)

RECURSIVE AllHistoryLines(_, _)
AllHistoryLines(lines, k) ==
    IF k > Len(SessionNames) THEN <<>>
    ELSE (IF SessionNames[k] \in DOMAIN lines
          THEN HistoryLines(IdCodes[k], lines[SessionNames[k]].values, 1)
          ELSE <<>>)
         \o AllHistoryLines(lines, k + 1)

\* A dump that records the given histories, signal after signal.
DumpOf(lines) == VarLines(lines, 1) \o MarkerText \o AllHistoryLines(lines, 1)

\* The level of a clock after k changes from low.
Toggle(k) == IF k % 2 = 1 THEN <<"1">> ELSE <<"0">>

\* n changes of a clock that starts low at tick t0 - 1, one per tick from t0.
Toggles(t0, n, k0) == [k \in 1..n |-> Entry(t0 + k - 1, Toggle(k0 + k - 1))]

High1 == <<Entry(0, <<"1">>)>>
Low1 == <<Entry(0, <<"0">>)>>

\* Two UART frames, two SPI bytes and two Avalon cycles, every history
\* recorded at ascending ticks.
OrderedLines ==
    (RxName :> Signal(1, Line(FrameLevels(65) \o <<"1">> \o FrameLevels(178), 1, 1)))
    @@ (SclkName :> Signal(1, Low1 \o Toggles(1, 2 * ByteBits * 2, 1)))
    @@ (MosiName :> Signal(1, DataLine(ByteLevels(178), 0)))
    @@ (ClkName :> Signal(1, Low1 \o Toggles(1, 4, 1)))
    @@ (ReadName :> Signal(1, High1))
    @@ (ReaddatavalidName :> Signal(1, High1))
    @@ (AddressName :> Signal(4, <<Entry(0, <<"0","0","1","1">>)>>))

\* The same lines recorded with the tick going back: the second frame, byte
\* and cycle are dumped at ticks before the first.
BackwardsLines ==
    (RxName :> Signal(1, <<Entry(0, <<"1">>), Entry(10, <<"0">>), Entry(25, <<"1">>),
                           Entry(5, <<"0">>)>>))
    @@ (SclkName :> Signal(1, <<Entry(19, <<"0">>)>> \o Toggles(20, 2 * ByteBits, 1)
                              \o Toggles(1, 2 * ByteBits, 1)))
    @@ (MosiName :> Signal(1, High1))
    @@ (ClkName :> Signal(1, <<Entry(3, <<"0">>), Entry(4, <<"1">>), Entry(1, <<"0">>),
                            Entry(2, <<"1">>)>>))
    @@ (ReadName :> Signal(1, High1))

\* Ticks that repeat but never go back.
RepeatedTickLines ==
    (RxName :> Signal(1, <<Entry(0, <<"1">>), Entry(1, <<"0">>), Entry(1, <<"1">>)>>))
    @@ (SclkName :> Signal(1, Low1 \o Toggles(1, 2 * ByteBits, 1)))
    @@ (MisoName :> Signal(1, High1))
    @@ (CsName :> Signal(1, Low1))
    @@ (ClkName :> Signal(1, <<Entry(0, <<"0">>), Entry(1, <<"1">>), Entry(1, <<"0">>),
                            Entry(1, <<"1">>)>>))
    @@ (WriteName :> Signal(1, High1))
    @@ (WritedataName :> Signal(4, <<Entry(0, <<"1","0","1","0">>)>>))

\* Fewer than two entries on every driving signal.
ShortLines ==
    (RxName :> Signal(1, High1))
    @@ (SclkName :> Signal(1, Low1))
    @@ (MosiName :> Signal(1, High1))
    @@ (ClkName :> Signal(1, <<>>))
    @@ (ReadName :> Signal(1, High1))

\* Entries but no qualifying edge: no falling edge on rx, no clock edge while
\* selected on sclk, no rising edge on clk.
NoEdgeLines ==
    (RxName :> Signal(1, <<Entry(0, <<"0">>), Entry(3, <<"1">>), Entry(6, <<"x">>),
                           Entry(9, <<"0">>)>>))
    @@ (SclkName :> Signal(1, <<Entry(0, <<"0">>), Entry(1, <<"x">>), Entry(2, <<"0">>),
                             Entry(3, <<"z">>)>>))
    @@ (MosiName :> Signal(1, High1))
    @@ (ClkName :> Signal(1, <<Entry(0, <<"1">>), Entry(1, <<"0">>), Entry(2, <<"x">>),
                            Entry(3, <<"1">>)>>))
    @@ (WriteName :> Signal(1, High1))

\* The tick goes back between the fourth and the fifth rising edge of SCLK.
MidByteBackLines ==
    (SclkName :> Signal(1, <<Entry(10, <<"0">>)>> \o Toggles(11, ByteBits, 1)
                              \o Toggles(1, ByteBits, 1)))
    @@ (MosiName :> Signal(1, High1))

SessionLines ==
    {OrderedLines, BackwardsLines, RepeatedTickLines, ShortLines, NoEdgeLines,
     MidByteBackLines}

\* The dumps loaded in a session.
SessionDumps == {DumpOf(lines) : lines \in SessionLines}

\* On the 1ns tick of a dump without $timescale: a bit of one tick, and a bit
\* of less than half a tick, which Math.max raises to one tick.
SessionBaudRates == {1000000000, 2100000000}

SessionSPIConfigs == {SPIConfig(0, 0), SPIConfig(1, 1)}

\* The configuration of a row that has none, and of no row.
NoConfig == [none |-> TRUE]

\* The session starts with a dump to load: const parsed = parseVCD(content).
InitSession ==
    /\ pc = "parse"
    /\ content \in SessionDumps
    /\ signals = <<>>
    /\ cfg = NoConfig
    /\ bin = <<>>
    /\ Fresh

\* A UART row of decodedProtocols: if (sig) decoded = decodeUART(sig, baudRate, timescale).
CallDecodeUART ==
    /\ pc = "parsed"
    /\ Len(decoded) < MaxCalls
    /\ Supplied(RxName)
    /\ pc' = "uart"
    /\ \E baudRate \in SessionBaudRates : cfg' = UARTConfig(baudRate, timescale)
    /\ UNCHANGED <<signals, qTime, qResult, bitDurationTicks, i, events, mosiBits, misoBits,
                   byteStartTime, clockPeriod, bin, hex>>
    /\ UNCHANGED <<parserVars, decoded>>

\* An SPI row: if (sclk) decoded = decodeSPI(sclk, mosi, miso, cs, cpol, cpha).
CallDecodeSPI ==
    /\ pc = "parsed"
    /\ Len(decoded) < MaxCalls
    /\ Supplied(SclkName)
    /\ pc' = "spi"
    /\ cfg' \in SessionSPIConfigs
    /\ UNCHANGED <<signals, qTime, qResult, bitDurationTicks, i, events, mosiBits, misoBits,
                   byteStartTime, clockPeriod, bin, hex>>
    /\ UNCHANGED <<parserVars, decoded>>

\* An Avalon row: if (clk) decoded = decodeAvalon(clk, ...).
CallDecodeAvalon ==
    /\ pc = "parsed"
    /\ Len(decoded) < MaxCalls
    /\ Supplied(ClkName)
    /\ pc' = "avalon"
    /\ cfg' = NoConfig
    /\ UNCHANGED <<signals, qTime, qResult, bitDurationTicks, i, events, mosiBits, misoBits,
                   byteStartTime, clockPeriod, bin, hex>>
    /\ UNCHANGED <<parserVars, decoded>>

\* The decoder whose call has returned.
ReturnedDecoder ==
    CASE pc = "uart_done" -> "uart" [] pc = "spi_done" -> "spi" [] pc = "avalon_done" -> "avalon"

\* return { ...p, decoded }: the row keeps the returned list and the decoder's
\* locals are gone.
ReturnDecoded ==
    /\ pc \in {"uart_done", "spi_done", "avalon_done"}
    /\ decoded' = Append(decoded, [decoder |-> ReturnedDecoder, config |-> cfg,
                                   events |-> events])
    /\ pc' = "parsed"
    /\ cfg' = NoConfig
    /\ bitDurationTicks' = 0
    /\ i' = 0
    /\ events' = <<>>
    /\ mosiBits' = <<>>
    /\ misoBits' = <<>>
    /\ byteStartTime' = NoByteStart
    /\ clockPeriod' = 0
    /\ UNCHANGED <<signals, qTime, qResult, bin, hex>>
    /\ UNCHANGED parserVars

\* The steps of a decoder call under way.
DecoderStep ==
    \/ UARTStart \/ UARTStep \/ UARTReturn
    \/ SPIStart \/ SPIStep \/ SPIReturn
    \/ AvalonStart \/ AvalonStep \/ AvalonReturn

NextSession ==
    \/ NextParse
    \/ CallDecodeUART \/ CallDecodeSPI \/ CallDecodeAvalon
    \/ DecoderStep
    \/ ReturnDecoded

SpecSession == InitSession /\ [][NextSession]_vars

\* A decoder call has begun and has not returned.
CallUnderWay == pc \in {"uart", "uart_loop", "spi", "spi_loop", "avalon", "avalon_loop"}

\* A decoder call that has begun keeps running: the decoders are synchronous
\* functions.  This is weak fairness of DecoderStep, WF_vars(DecoderStep), with
\* ENABLED <<DecoderStep>>_vars written out as CallUnderWay.
SpecSessionFair ==
    SpecSession /\ ([]<>(~CallUnderWay) \/ []<><<DecoderStep>>_vars)

-----------------------------------------------------------------------------
(* Claims                                                                  *)

ClkValues == signals[ClkName].values

\* The history's ticks never decrease in append order.
TimeOrdered(values) ==
    \A k \in 1..(Len(values) - 1) : values[k].time <= values[k + 1].time

\* The indices of the entries recorded at or before tick t.
AtOrBefore(values, t) == {k \in 1..Len(values) : values[k].time <= t}

LastIndex(S) == CHOOSE k \in S : \A m \in S : m <= k

\* C1 as stated: for any history the parser can produce, a query returns the value
\* of the last recorded (last appended) entry whose time is <= the query time.
C1_AnyHistory ==
    (pc = "queried" /\ AtOrBefore(ClkValues, qTime) # {})
        => qResult = ClkValues[LastIndex(AtOrBefore(ClkValues, qTime))].value

\* C1 amended: for any history whose ticks are non-decreasing in append order, a
\* query at t returns the value of the last appended entry whose time is <= t (so of
\* several entries at one tick the last one), and for clk = 0@0, 1@5, 0@10, 1@15 it
\* returns 1 at t=7, 0 at t=0 and 1 at t=20.
C1_TimeOrderedHistory ==
    (pc = "queried" /\ TimeOrdered(ClkValues)) =>
        /\ AtOrBefore(ClkValues, qTime) # {}
              => qResult = ClkValues[LastIndex(AtOrBefore(ClkValues, qTime))].value
        /\ (ClkValues = ClkScenario /\ qTime = 7) => qResult = <<"1">>
        /\ (ClkValues = ClkScenario /\ qTime = 0) => qResult = <<"0">>
        /\ (ClkValues = ClkScenario /\ qTime = 20) => qResult = <<"1">>

\* Witness of C1: a time-ordered history with two different values recorded at the
\* same tick before the query time and a later entry after it.
C1_Witness ==
    /\ pc = "queried"
    /\ TimeOrdered(ClkValues)
    /\ Len(ClkValues) = 3
    /\ ClkValues[1].time = ClkValues[2].time
    /\ ClkValues[1].value # ClkValues[2].value
    /\ ClkValues[2].time < qTime
    /\ qTime < ClkValues[3].time
    /\ qResult = ClkValues[2].value

\* C2: a query earlier than the first recorded entry returns the first recorded
\* value when the history is non-empty, and 'x' when it is empty.
C2_BeforeFirstEntry ==
    pc = "queried" =>
        /\ (ClkValues # <<>> /\ qTime < ClkValues[1].time)
              => qResult = ClkValues[1].value
        /\ ClkValues = <<>> => qResult = <<"x">>

\* The state markers binToHex recognises.
StateMarkers == {"u","U","x","X","z","Z","w","W","l","L","h","H","-"," "}

AllSame(s) == \A k \in 1..Len(s) : s[k] = s[1]

IsBinary(s) == \A k \in 1..Len(s) : s[k] \in {"0", "1"}

\* The four bits a hexadecimal digit stands for.
DigitBits(d) ==
    LET n == (CHOOSE k \in 1..16 : HexDigits[k] = d) - 1
        B(x) == IF x = 1 THEN "1" ELSE "0"
    IN <<B(n \div 8), B((n \div 4) % 2), B((n \div 2) % 2), B(n % 2)>>

RECURSIVE ExpandHex(_)
ExpandHex(h) == IF h = <<>> THEN <<>> ELSE DigitBits(Head(h)) \o ExpandHex(Tail(h))

\* a and b are the same binary numeral up to leading zero bits.
SameNumber(a, b) ==
    LET n == Max(Len(a), Len(b))
    IN Repeat("0", n - Len(a)) \o a = Repeat("0", n - Len(b)) \o b

RECURSIVE BinValue(_)
BinValue(s) == IF s = <<>> THEN 0 ELSE 2 * BinValue(SubSeq(s, 1, Len(s) - 1)) + BitVal(s[Len(s)])

RECURSIVE HexValue(_)
HexValue(h) ==
    IF h = <<>> THEN 0
    ELSE 16 * HexValue(SubSeq(h, 1, Len(h) - 1))
         + (CHOOSE k \in 1..16 : HexDigits[k] = h[Len(h)]) - 1

\* C10: for a non-empty string over {0,1} of any width, binToHex returns upper-case
\* hexadecimal digits, with no leading zero digit (the numeral of zero is '0'),
\* that denote the same number as the string: expanding every digit to its four
\* bits gives back the argument up to leading zero bits, so no high-order bit is
\* lost; 0000 gives 0 and 1111 gives F.
C10_WideBinaryToHex ==
    (pc = "hexdone" /\ bin # <<>> /\ IsBinary(bin)) =>
        /\ Len(hex) >= 1
        /\ \A k \in 1..Len(hex) : \E d \in 1..16 : HexDigits[d] = hex[k]
        /\ Len(hex) > 1 => hex[1] # "0"
        /\ SameNumber(ExpandHex(hex), bin)
        /\ Len(bin) <= 30 => HexValue(hex) = BinValue(bin)
        /\ bin = <<"0","0","0","0">> => hex = <<"0">>
        /\ bin = <<"1","1","1","1">> => hex = <<"F">>

\* Witness of C10: a 65-bit argument with its highest bit set gives 17 digits.
C10_Witness ==
    /\ pc = "hexdone"
    /\ IsBinary(bin)
    /\ Len(bin) = 65
    /\ bin[1] = "1"
    /\ Len(hex) = 17
    /\ hex[1] = "1"

-----------------------------------------------------------------------------
(* Claims about decodeUART                                                 *)

\* Entries k-1 and k of the line are a 1 -> 0 transition.
FallingAt(k) ==
    /\ k \in 2..Len(Rx.values)
    /\ Rx.values[k - 1].value = <<"1">>
    /\ Rx.values[k].value = <<"0">>

\* The value sampled for data bit b of a frame whose start bit is entry k:
\* the point query at t0 + bitDurationTicks * (b + 1.5).
SampleOf(k, b) ==
    getSignalValueAt(Rx, 2 * Rx.values[k].time + (2 * b + 3) * bitDurationTicks)

AllSamplesBinary(k) == \A b \in 0..7 : SampleOf(k, b) \in {<<"0">>, <<"1">>}
SomeSampleUnknown(k) == \E b \in 0..7 : SampleOf(k, b) \in {<<"x">>, <<"z">>}

\* The byte whose bit b is sample b.
ByteOf(k) ==
    LET Weight(b) == IF SampleOf(k, b) = <<"1">> THEN Pow2(b) ELSE 0
    IN Weight(0) + Weight(1) + Weight(2) + Weight(3)
       + Weight(4) + Weight(5) + Weight(6) + Weight(7)

\* e is the event the claim describes for the start bit at entry k.
IsFrameEvent(e, k) ==
    /\ e.startTime = Rx.values[k].time
    /\ e.endTime = Rx.values[k].time + 10 * bitDurationTicks
    /\ Len(e.data) = 4
    /\ SubSeq(e.data, 1, 2) = <<"0", "x">>
    /\ \A d \in 3..4 : \E h \in 1..16 : HexDigits[h] = e.data[d]
    /\ HexValue(SubSeq(e.data, 3, 4)) = ByteOf(k)
    /\ e.label = IF ByteOf(k) >= 32 /\ ByteOf(k) <= 126
                 THEN <<PrintableAscii[ByteOf(k) - 31]>>
                 ELSE <<"\\", "x">> \o SubSeq(e.data, 3, 4)

\* The event of the 'A' scenario.
EventA9600 ==
    [startTime |-> 0, endTime |-> 1041670,
     data |-> <<"0", "x", "4", "1">>, label |-> <<"A">>]

\* C3 as stated: every 1 -> 0 transition between consecutive entries whose 8
\* samples are all 0 or 1 has exactly one event, with the stated fields.
C3_EveryFallingEdge ==
    pc = "uart_done" =>
        \A k \in 2..Len(Rx.values) :
            (FallingAt(k) /\ AllSamplesBinary(k) /\ TimescaleMatch(cfg.timescaleStr).ok) =>
                /\ Cardinality({e \in 1..Len(events) :
                                   events[e].startTime = Rx.values[k].time}) = 1
                /\ \E e \in 1..Len(events) : IsFrameEvent(events[e], k)

\* C3 amended: a 1 -> 0 transition at t0 that the scan examines (it does not lie in
\* the 10 bit periods skipped after an earlier decoded frame) and whose 8 samples at
\* t0 + bitDurationTicks*(b+1.5) are all 0 or 1 appends exactly one event: startTime
\* t0, endTime t0 + 10*bitDurationTicks, data 0x + two upper-case hex digits of the
\* byte with sample b as bit b, label the character for 0x20..0x7E and \x + the hex
\* digits otherwise; 9600 baud on 1ns is 104167 ticks per bit and the frame of 'A'
\* gives exactly one event, data 0x41, label A.
C3_ExaminedStartBit ==
    /\ [][(pc = "uart_loop" /\ FallingAt(i) /\ AllSamplesBinary(i)) =>
            /\ Len(events') = Len(events) + 1
            /\ SubSeq(events', 1, Len(events)) = events
            /\ IsFrameEvent(events'[Len(events')], i)]_vars
    /\ []((pc = "uart_done" /\ cfg = Config9600) =>
            /\ bitDurationTicks = 104167
            /\ Rx.values = FrameA9600 => events = <<EventA9600>>)

\* Witness of C3: the 'A' frame decoded, its inner 1 -> 0 transitions skipped.
C3_Witness ==
    /\ pc = "uart_done"
    /\ cfg = Config9600
    /\ Rx.values = FrameA9600
    /\ events = <<EventA9600>>
    /\ \E k \in 3..Len(Rx.values) : FallingAt(k) /\ AllSamplesBinary(k)

\* The 1 -> 0 transitions of the line after entry k, and the first of them.
FallingAfter(k) == {m \in (k + 1)..Len(Rx.values) : FallingAt(m)}
FirstFallingAfter(k) == CHOOSE m \in FallingAfter(k) : \A n \in FallingAfter(k) : m <= n

\* C4: an examined candidate start bit with an 'x' or 'z' among its 8 samples
\* appends no event, and the scan goes on at the next entry: the loop index moves
\* by one and the call does not return.  So when the first candidate of a history is
\* abandoned and the next 1 -> 0 transition has 8 known samples, the returned list
\* holds the event of that later frame.
C4_UnknownSampleAbandons ==
    /\ [][(pc = "uart_loop" /\ FallingAt(i) /\ SomeSampleUnknown(i)) =>
            /\ events' = events
            /\ i' = i + 1
            /\ pc' = "uart_loop"]_vars
    /\ []((pc = "uart_done" /\ bitDurationTicks > 0 /\ FallingAfter(1) # {}) =>
            LET k == FirstFallingAfter(1)
            IN (SomeSampleUnknown(k) /\ FallingAfter(k) # {}
                    /\ AllSamplesBinary(FirstFallingAfter(k))) =>
                  /\ \A e \in 1..Len(events) : events[e].startTime # Rx.values[k].time
                        \/ \E m \in FallingAfter(k) : IsFrameEvent(events[e], m)
                  /\ \E e \in 1..Len(events) :
                        IsFrameEvent(events[e], FirstFallingAfter(k)))

\* Witness of C4: the call has returned; a candidate with an unknown sample has no
\* event, and a frame that starts later in the same history was decoded.
C4_Witness ==
    /\ pc = "uart_done"
    /\ TimeOrdered(Rx.values)
    /\ \E k \in 2..Len(Rx.values) :
          /\ FallingAt(k)
          /\ SomeSampleUnknown(k)
          /\ \A e \in 1..Len(events) : events[e].startTime # Rx.values[k].time
          /\ \E m \in (k + 1)..Len(Rx.values), e \in 1..Len(events) :
                /\ Rx.values[m].time > Rx.values[k].time
                /\ IsFrameEvent(events[e], m)

-----------------------------------------------------------------------------
(* Claims about decodeSPI                                                  *)

Sclk == signals[SclkName].values

RisingAt(k) == Sclk[k - 1].value = <<"0">> /\ Sclk[k].value = <<"1">>

FallingAt1to0(k) == Sclk[k - 1].value = <<"1">> /\ Sclk[k].value = <<"0">>

\* The polarity table: rising for (0,0) and (1,1), falling for (0,1) and (1,0).
SamplingPolarityAt(k) ==
    IF <<cfg.cpol, cfg.cpha>> \in {<<0, 0>>, <<1, 1>>} THEN RisingAt(k)
    ELSE IF <<cfg.cpol, cfg.cpha>> \in {<<0, 1>>, <<1, 0>>} THEN FallingAt1to0(k)
    ELSE FALSE

OtherPolarityAt(k) ==
    IF <<cfg.cpol, cfg.cpha>> \in {<<0, 0>>, <<1, 1>>} THEN FallingAt1to0(k)
    ELSE RisingAt(k)

\* Chip-select does not deselect the transition at entry k.
SelectedAt(k) ==
    ~Supplied(CsName) \/ getSignalValueAt(signals[CsName], 2 * Sclk[k].time) = <<"0">>

DataSupplied == Supplied(MosiName) \/ Supplied(MisoName)

\* The step under way is one iteration of the clock loop.
SPIIteration == pc = "spi_loop" /\ i' = i + 1

\* The iteration samples: a bit is appended or a byte is completed.
Samples ==
    \/ Len(mosiBits') = Len(mosiBits) + 1
    \/ Len(misoBits') = Len(misoBits) + 1
    \/ Len(events') = Len(events) + 1

\* C5: during a decodeSPI run a bit is appended (or a byte completed) only at
\* a clock transition of the polarity that (cpol, cpha) fixes -- rising for
\* (0,0) and (1,1), falling for (0,1) and (1,0) -- every such transition that
\* chip-select does not deselect samples the supplied data lines, and a
\* transition of the other polarity leaves accumulators and events untouched.
C5_OnePolaritySamples ==
    /\ [][SPIIteration /\ Samples => SamplingPolarityAt(i)]_vars
    /\ [][SPIIteration /\ SamplingPolarityAt(i) /\ SelectedAt(i) /\ DataSupplied
            => Samples]_vars
    /\ [][SPIIteration /\ OtherPolarityAt(i) /\ SelectedAt(i)
            => UNCHANGED <<mosiBits, misoBits, byteStartTime, events>>]_vars

\* A finished run with cpol=1, cpha=0 over a clock with transitions of both
\* polarities that decoded at least one byte.
C5_Witness ==
    /\ pc = "spi_done"
    /\ cfg = SPIConfig(1, 0)
    /\ Supplied(SclkName)
    /\ Len(events) >= 1
    /\ \E k \in 2..Len(Sclk) : RisingAt(k)
    /\ \E k \in 2..Len(Sclk) : FallingAt1to0(k)

\* The bit a supplied line contributes at the transition at entry k.
BitAt(name, k) ==
    IF getSignalValueAt(signals[name], 2 * Sclk[k].time) = <<"1">> THEN 1 ELSE 0

\* The value of a bit sequence whose first element is bit 7.
RECURSIVE MsbFirstValue(_)
MsbFirstValue(bits) ==
    IF bits = <<>> THEN 0
    ELSE bits[1] * Pow2(ByteBits - 1) + MsbFirstValue(Tail(bits)) \div 2

TwoHex(n) == <<HexDigits[(n \div 16) + 1], HexDigits[(n % 16) + 1]>>

ByteText(mByte, sByte) ==
    <<"M","O","S","I",":"," ","0","x">> \o TwoHex(mByte)
    \o <<","," ","M","I","S","O",":"," ","0","x">> \o TwoHex(sByte)

\* The entries, in order, at which the run sampled when chip-select never
\* deselects: the transitions of the sampling polarity.
RECURSIVE EdgesFrom(_)
EdgesFrom(k) ==
    IF k > Len(Sclk) THEN <<>>
    ELSE (IF SamplingPolarityAt(k) THEN <<k>> ELSE <<>>) \o EdgesFrom(k + 1)

Edges == EdgesFrom(2)

\* The byte a line yields from the n-th group of 8 sampling edges.
GroupByte(name, n) ==
    IF Supplied(name)
    THEN MsbFirstValue([m \in 1..ByteBits |-> BitAt(name, Edges[ByteBits * (n - 1) + m])])
    ELSE 0

NeverDeselected == \A k \in 2..Len(Sclk) : SelectedAt(k)

\* The accumulators after the iteration's sample has been appended.
WithSample(bits, name) == IF Supplied(name) THEN Append(bits, BitAt(name, i)) ELSE bits

\* C6: the first sampling edge of an empty accumulator records the byte start
\* time; the edge that brings an accumulator to 8 bits emits exactly one
\* event from the recorded start time to that edge, carrying both bytes
\* assembled MSB-first in hex (00 for a line not supplied), and empties the
\* accumulators; in a run chip-select never interrupts, the events are exactly
\* the successive groups of 8 sampling edges; and cpol=0, cpha=0 with MOSI bits
\* 1,0,1,1,0,0,1,0 on 8 rising edges gives the single byte 0xB2.
C6_ByteAssembly ==
    /\ [][SPIIteration /\ Samples /\ mosiBits = <<>> /\ misoBits = <<>>
            => byteStartTime' = Sclk[i].time /\ events' = events]_vars
    /\ [][SPIIteration /\ Samples /\ Len(events') = Len(events)
            /\ (mosiBits # <<>> \/ misoBits # <<>>)
            => byteStartTime' = byteStartTime /\ byteStartTime # NoByteStart]_vars
    /\ [][SPIIteration /\ Samples
            => (Len(events') = Len(events) + 1)
               = (Len(mosiBits) = ByteBits - 1 \/ Len(misoBits) = ByteBits - 1)]_vars
    /\ [][SPIIteration /\ Len(events') # Len(events)
            => /\ events' = Append(events, events'[Len(events')])
               /\ events'[Len(events')].startTime = byteStartTime
               /\ events'[Len(events')].endTime = Sclk[i].time
               /\ events'[Len(events')].data
                    = ByteText(MsbFirstValue(WithSample(mosiBits, MosiName)),
                               MsbFirstValue(WithSample(misoBits, MisoName)))
               /\ mosiBits' = <<>> /\ misoBits' = <<>>
               /\ byteStartTime' = NoByteStart]_vars
    /\ [](pc = "spi_done" /\ Supplied(SclkName) /\ DataSupplied /\ NeverDeselected
            => /\ Len(events) = Len(Edges) \div ByteBits
               /\ \A n \in 1..Len(events) :
                    /\ events[n].startTime = Sclk[Edges[ByteBits * (n - 1) + 1]].time
                    /\ events[n].endTime = Sclk[Edges[ByteBits * n]].time
                    /\ events[n].data
                         = ByteText(GroupByte(MosiName, n), GroupByte(MisoName, n)))
    /\ [](pc = "spi_done" /\ signals = ScenarioB2.lines /\ cfg = ScenarioB2.cfg
            => /\ Len(events) = 1
               /\ events[1].data = <<"M","O","S","I",":"," ","0","x","B","2",
                                     ","," ","M","I","S","O",":"," ","0","x","0","0">>)

\* Two bytes decoded from both lines without chip-select, the second with
\* different MOSI and MISO values.
C6_Witness ==
    /\ pc = "spi_done"
    /\ Supplied(MosiName) /\ Supplied(MisoName) /\ ~Supplied(CsName)
    /\ Len(events) = 2
    /\ events[1].data = ByteText(178, 90)
    /\ events[2].data = ByteText(0, 195)
    /\ events[1].endTime < events[2].startTime

-----------------------------------------------------------------------------
(* Claims about decodeAvalon                                               *)

Clk == signals[ClkName].values

ClkRisingAt(k) == Clk[k - 1].value = <<"0">> /\ Clk[k].value = <<"1">>

\* The value a supplied line has at tick t.
LineValue(name, t) == getSignalValueAt(signals[name], 2 * t)

\* A supplied waitrequest line has value '1' at tick t.
Stalled(t) == Supplied(WaitrequestName) /\ LineValue(WaitrequestName, t) = <<"1">>

High(name, t) == Supplied(name) /\ LineValue(name, t) = <<"1">>

\* The step under way is one iteration of the main clock loop.
AvalonIteration == pc = "avalon_loop" /\ i' = i + 1

\* C7: at a rising clk edge at which a supplied waitrequest line is '1' the
\* iteration emits no event, whatever write, read and readdatavalid are; so
\* no returned event starts at a tick at which waitrequest is '1'.
C7_StalledEdgeEmitsNothing ==
    /\ [][AvalonIteration /\ ClkRisingAt(i) /\ Stalled(Clk[i].time)
            => events' = events]_vars
    /\ [](pc = "avalon_done" => \A e \in 1..Len(events) : ~Stalled(events[e].startTime))

\* A finished run with a rising edge at which waitrequest, write, read and
\* readdatavalid are all '1', and another edge that did emit.
C7_Witness ==
    /\ pc = "avalon_done"
    /\ Supplied(ClkName)
    /\ \E k \in 2..Len(Clk) :
          /\ ClkRisingAt(k)
          /\ Stalled(Clk[k].time)
          /\ High(WriteName, Clk[k].time)
          /\ High(ReadName, Clk[k].time)
          /\ High(ReaddatavalidName, Clk[k].time)
    /\ Len(events) >= 1

\* The hex text of a line's value at tick t, 'X' for a line not supplied.
HexOf(name, t) == binToHex(IF Supplied(name) THEN LineValue(name, t) ELSE <<"X">>)

IsPrefix(p, s) == Len(p) <= Len(s) /\ SubSeq(s, 1, Len(p)) = p

\* The kinds and labels of the events due at an unstalled rising edge at t.
DueAt(t) ==
    (IF High(WriteName, t)
     THEN <<[kind |-> <<"W","R","I","T","E">>,
             label |-> <<"W","R"," ","0","x">> \o HexOf(AddressName, t)]>>
     ELSE <<>>)
    \o (IF High(ReadName, t)
        THEN <<[kind |-> <<"R","E","A","D"," ","R","E","Q">>,
                label |-> <<"R","D"," ","R","E","Q"," ","0","x">> \o HexOf(AddressName, t)]>>
        ELSE <<>>)
    \o (IF High(ReaddatavalidName, t)
        THEN <<[kind |-> <<"R","E","A","D"," ","D","A","T","A">>,
                label |-> <<"R","D"," ","D","A","T","A"," ","0","x">>
                          \o HexOf(ReaddataName, t)]>>
        ELSE <<>>)

\* The events the iteration appended.
Emitted == SubSeq(events', Len(events) + 1, Len(events'))

\* C8: an iteration at an unstalled rising clk edge at t appends exactly a
\* WRITE event labelled 'WR 0x<address hex>' iff write is '1' at t, a READ REQ
\* event labelled 'RD REQ 0x<address hex>' iff read is '1' at t and a READ DATA
\* event labelled 'RD DATA 0x<readdata hex>' iff readdatavalid is '1' at t,
\* each decided on its own (0 to 3 events, all starting at t); an iteration
\* that is not at a rising edge appends nothing, and every returned event
\* starts at the tick of a rising clk edge.
C8_EventsPerEdge ==
    /\ [][AvalonIteration /\ ClkRisingAt(i) /\ ~Stalled(Clk[i].time)
            => /\ Len(events') = Len(events) + Len(DueAt(Clk[i].time))
               /\ SubSeq(events', 1, Len(events)) = events
               /\ \A n \in 1..Len(DueAt(Clk[i].time)) :
                     /\ Emitted[n].label = DueAt(Clk[i].time)[n].label
                     /\ IsPrefix(DueAt(Clk[i].time)[n].kind, Emitted[n].data)
                     /\ Emitted[n].startTime = Clk[i].time]_vars
    /\ [][AvalonIteration /\ ~ClkRisingAt(i) => events' = events]_vars
    /\ [](pc = "avalon_done" =>
            \A e \in 1..Len(events) :
               \E k \in 2..Len(Clk) : ClkRisingAt(k) /\ Clk[k].time = events[e].startTime)

\* A finished run in which one unstalled rising edge yielded all three
\* events, another yielded none, and a third yielded a write and a read
\* request but no read data.
C8_Witness ==
    /\ pc = "avalon_done"
    /\ Supplied(ClkName)
    /\ \E k \in 2..Len(Clk) :
          ClkRisingAt(k) /\ ~Stalled(Clk[k].time) /\ Len(DueAt(Clk[k].time)) = 3
    /\ \E k \in 2..Len(Clk) :
          ClkRisingAt(k) /\ ~Stalled(Clk[k].time) /\ Len(DueAt(Clk[k].time)) = 0
    /\ \E k \in 2..Len(Clk) :
          /\ ClkRisingAt(k) /\ ~Stalled(Clk[k].time)
          /\ High(WriteName, Clk[k].time) /\ High(ReadName, Clk[k].time)
          /\ ~High(ReaddatavalidName, Clk[k].time)
    /\ \E e \in 1..Len(events) : events[e].label = <<"W","R"," ","0","x","X">>
    /\ \E e \in 1..Len(events) : events[e].label = <<"R","D"," ","R","E","Q"," ","0","x","3">>

-----------------------------------------------------------------------------
(* Claims about parseVCD                                                   *)

\* What the call under way has returned.
Returned == [timescale |-> timescale, signals |-> signals, maxTime |-> maxTime]

HasMarker == MarkerLine(content) # 0

\* The Signal Table as the data loop left it, before the reconstruction pass.
PreTable == BeforePostProcess(content).signals

\* A signal's name, width and history.
Facts(sig) == [name |-> sig.name, size |-> sig.size, values |-> sig.values]

\* The key set of a table with every signal's name, width and history.
Contents(table) == [n \in DOMAIN table |-> Facts(table[n])]

\* The single-bit signals of a table named '<base>[<index>]'.
BitSignals(table, base) == {n \in DOMAIN table : IsBitOf(table, n, base)}

BitIndexes(table, base) == {BitMatch(n).bitIdx : n \in BitSignals(table, base)}

\* '<base>[<maxBit>:<minBit>]'
CompositeNameOf(base, maxBit, minBit) ==
    base \o <<"[">> \o ToDecimal(maxBit) \o <<":">> \o ToDecimal(minBit) \o <<"]">>

\* C11 (as stated): after the reconstruction pass every base name with more
\* than one single-bit signal '<base>[<index>]' has a composite
\* '<base>[<maxBit>:<minBit>]' of width maxBit-minBit+1 in the table and none
\* of its single-bit members; a base with exactly one such signal keeps it
\* unchanged and gets no composite.
C11_GroupsMerged ==
    pc = "parsed" /\ HasMarker =>
        \A base \in GroupBases(PreTable) :
            LET members == BitSignals(PreTable, base)
                maxBit == SetMax(BitIndexes(PreTable, base))
                minBit == SetMin(BitIndexes(PreTable, base))
                composite == CompositeNameOf(base, maxBit, minBit)
            IN IF Cardinality(members) > 1
               THEN /\ composite \in DOMAIN signals
                    /\ signals[composite].size = Num(maxBit - minBit + 1)
                    /\ members \cap DOMAIN signals = {}
               ELSE /\ members \subseteq DOMAIN signals
                    /\ \A n \in members : Facts(signals[n]) = Facts(PreTable[n])
                    /\ composite \notin DOMAIN signals

\* The claim holds for the groups whose members have pairwise different bit
\* indexes.
C11_DistinctIndexes ==
    pc = "parsed" /\ HasMarker =>
        \A base \in GroupBases(PreTable) :
            LET members == BitSignals(PreTable, base)
                maxBit == SetMax(BitIndexes(PreTable, base))
                minBit == SetMin(BitIndexes(PreTable, base))
                composite == CompositeNameOf(base, maxBit, minBit)
            IN Cardinality(members) = Cardinality(BitIndexes(PreTable, base)) =>
                 IF Cardinality(members) > 1
                 THEN /\ composite \in DOMAIN signals
                      /\ signals[composite].size = Num(maxBit - minBit + 1)
                      /\ members \cap DOMAIN signals = {}
                 ELSE /\ members \subseteq DOMAIN signals
                      /\ \A n \in members : Facts(signals[n]) = Facts(PreTable[n])
                      /\ composite \notin DOMAIN signals

\* The step machine and the function of the text agree on the returned value.
ParseAgrees == pc = "parsed" => Returned = parseVCD(content)

\* The ticks at which some signal of the set has a recorded entry.
TransitionTimes(table, names) ==
    UNION {{table[n].values[e].time : e \in 1..Len(table[n].values)} : n \in names}

EntryTimes(values) == {values[e].time : e \in 1..Len(values)}

StrictlyAscending(values) ==
    \A e \in 1..(Len(values) - 1) : values[e].time < values[e + 1].time

\* The composite built for a base whose group has more than one bit index.
CompositeOf(base) ==
    signals[CompositeNameOf(base, SetMax(BitIndexes(PreTable, base)),
                            SetMin(BitIndexes(PreTable, base)))]

Merged(base) == Cardinality(BitIndexes(PreTable, base)) > 1

\* Every recorded value of the signals is one character.
OneCharacterValues(table, names) ==
    \A n \in names : \A e \in 1..Len(table[n].values) : Len(table[n].values[e].value) = 1

\* The entry is the string of length maxBit-minBit+1 whose character for
\* index i, listed from maxBit down, is the value at the entry's time of every
\* member with index i, and 'x' when no member has index i.
EntryReadsMembers(entry, base) ==
    LET members == BitSignals(PreTable, base)
        maxBit == SetMax(BitIndexes(PreTable, base))
        minBit == SetMin(BitIndexes(PreTable, base))
    IN /\ Len(entry.value) = maxBit - minBit + 1
       /\ \A idx \in minBit..maxBit :
             LET at == maxBit - idx + 1
             IN IF idx \in BitIndexes(PreTable, base)
                THEN \A n \in members :
                        BitMatch(n).bitIdx = idx =>
                            <<entry.value[at]>> = getSignalValueAt(PreTable[n], 2 * entry.time)
                ELSE entry.value[at] = "x"

\* C12 (as stated): the composite's history has exactly one entry per distinct
\* transition time of any member bit, in strictly ascending time order, and
\* the entry at time T is the string of length maxBit-minBit+1 whose
\* character for bit index i, from maxBit down to minBit, is
\* getSignalValueAt(bit i, T) when bit i is in the group and 'x' for a gap.
C12_CompositeHistory ==
    pc = "parsed" /\ HasMarker =>
        \A base \in GroupBases(PreTable) :
            Merged(base) =>
                LET values == CompositeOf(base).values
                IN /\ EntryTimes(values) = TransitionTimes(PreTable, BitSignals(PreTable, base))
                   /\ StrictlyAscending(values)
                   /\ \A e \in 1..Len(values) : EntryReadsMembers(values[e], base)

\* The claim holds for the groups whose members have pairwise different bit
\* indexes and one-character values.
C12_DistinctIndexes ==
    pc = "parsed" /\ HasMarker =>
        \A base \in GroupBases(PreTable) :
            (/\ Merged(base)
             /\ Cardinality(BitSignals(PreTable, base)) = Cardinality(BitIndexes(PreTable, base))
             /\ OneCharacterValues(PreTable, BitSignals(PreTable, base))) =>
                LET values == CompositeOf(base).values
                IN /\ EntryTimes(values) = TransitionTimes(PreTable, BitSignals(PreTable, base))
                   /\ StrictlyAscending(values)
                   /\ \A e \in 1..Len(values) : EntryReadsMembers(values[e], base)

\* What a second application of the pass finds and leaves.
SecondPass == pc = "parsed" /\ pc' = "reconstructed_again"

\* C13 (as stated): applying the reconstruction pass a second time to an
\* already-reconstructed Signal Table leaves the set of keys and every
\* signal's name, width and history unchanged.
C13_Idempotent == [][SecondPass => Contents(signals') = Contents(signals)]_vars

\* The second pass changes nothing when the first pass saw groups whose
\* members have pairwise different bit indexes.
C13_DistinctIndexes ==
    [][(/\ SecondPass
        /\ HasMarker
        /\ \A base \in GroupBases(PreTable) :
              Cardinality(BitSignals(PreTable, base)) = Cardinality(BitIndexes(PreTable, base)))
          => Contents(signals') = Contents(signals)]_vars

\* The signal was built by the reconstruction pass.
IsComposite(sig) == StartsWith(sig.id, <<"c","o","m","p","o","s","i","t","e","_">>)

DeclaredIds == DOMAIN BeforePostProcess(content).idToSignal \ {UndefinedTok}

\* The identifier code a value-change line names: the text after the first
\* character of a scalar change, the second field of a vector change.
ChangeId(line) ==
    IF Head(line) \in {"b", "B"} THEN Part(SplitWs(line), 1) ELSE Tail(line)

\* The k-th line of the text is a value-change line of the data region.
IsValueChange(lines, k) ==
    /\ k > MarkerLine(lines)
    /\ Trim(lines[k]) # <<>>
    /\ Head(Trim(lines[k])) \notin {"#", "$"}

\* The k-th line is a value change whose identifier code no $var declared.
UnknownChange(k) ==
    /\ IsValueChange(content, k)
    /\ ChangeId(Trim(content[k])) \notin {<<>>, UndefinedTok}
    /\ ChangeId(Trim(content[k])) \notin DeclaredIds

\* The data-loop iteration under way reads the k-th line of the text.
ReadsLine(k) == pc = "parse_data" /\ pc' = "parse_data" /\ MarkerLine(content) + lineNo - 1 = k

\* C15: a value-change line, scalar or vector, whose identifier code was not
\* declared by a $var in the header leaves the Signal Table and every history
\* unchanged, and the lines after it are parsed as if it were absent.
C15_UnknownIdIgnored ==
    /\ [][\A k \in 1..Len(content) :
            ReadsLine(k) /\ UnknownChange(k) =>
                UNCHANGED <<signals, idToSignal, scopeStack, currentTime, maxTime>>]_vars
    /\ [](pc = "parsed" /\ HasMarker =>
            \A k \in 1..Len(content) :
                UnknownChange(k) => Returned = parseVCD(RemoveAt(content, k)))

\* A returned table with recorded entries from a text in which a scalar change
\* of an undeclared identifier is followed by changes of declared ones.
C15_Witness ==
    /\ pc = "parsed"
    /\ HasMarker
    /\ \E k \in 1..(Len(content) - 2) :
          /\ UnknownChange(k)
          /\ Head(Trim(content[k])) = "1"
          /\ \E j \in (k + 1)..Len(content) : IsValueChange(content, j) /\ ~UnknownChange(j)
    /\ \E n \in DOMAIN signals : Len(signals[n].values) > 2

\* What parseVCD returns, the table by its keys, names, widths and histories.
Outcome(result) ==
    [timescale |-> result.timescale, signals |-> Contents(result.signals),
     maxTime |-> result.maxTime]

AllDigits(s) == s # <<>> /\ \A k \in 1..Len(s) : IsDigit(s[k])

\* A $var line of the header with its width, identifier or name missing.
MalformedVar(lines, k) ==
    /\ k <= MarkerLine(lines)
    /\ StartsWith(Trim(headerLines(lines)[k]), <<"$","v","a","r">>)
    /\ LET parts == SplitWs(Trim(headerLines(lines)[k]))
       IN \/ ~AllDigits(Part(parts, 2))
          \/ Len(parts) < 4
          \/ NameParts(parts, 5) = <<>>

\* A time marker of the data region whose tick is not an integer.
MalformedMarker(lines, k) ==
    /\ k > MarkerLine(lines)
    /\ StartsWith(Trim(lines[k]), <<"#">>)
    /\ ~AllDigits(Tail(Trim(lines[k])))

\* A vector change of the data region with no identifier.
VectorWithoutId(lines, k) ==
    /\ IsValueChange(lines, k)
    /\ Head(Trim(lines[k])) \in {"b", "B"}
    /\ Len(SplitWs(Trim(lines[k]))) < 2

Malformed(lines, k) ==
    MalformedVar(lines, k) \/ MalformedMarker(lines, k) \/ VectorWithoutId(lines, k)

\* C16 (as stated): a malformed header or data line (a $var with missing
\* width, identifier or name, a time marker whose tick is not an integer, a
\* vector line with no identifier) is skipped: the returned Metadata and
\* Signal Table are those obtained from the same text with the line removed.
C16_MalformedSkipped ==
    pc = "parsed" /\ HasMarker =>
        \A k \in 1..Len(content) :
            Malformed(content, k) =>
                Outcome(Returned) = Outcome(parseVCD(RemoveAt(content, k)))

\* The part that holds: a vector change with no identifier is skipped when no
\* $var line lacks its identifier.
C16_VectorWithoutIdSkipped ==
    pc = "parsed" /\ HasMarker =>
        \A k \in 1..Len(content) :
            (VectorWithoutId(content, k) /\ \A j \in 1..Len(content) : ~MalformedVar(content, j))
                => Outcome(Returned) = Outcome(parseVCD(RemoveAt(content, k)))

\* As stated, for the $var lines alone.
C16_MalformedVarSkipped ==
    pc = "parsed" /\ HasMarker =>
        \A k \in 1..Len(content) :
            MalformedVar(content, k) =>
                Outcome(Returned) = Outcome(parseVCD(RemoveAt(content, k)))

\* As stated, for the time markers alone.
C16_MalformedMarkerSkipped ==
    pc = "parsed" /\ HasMarker =>
        \A k \in 1..Len(content) :
            MalformedMarker(content, k) =>
                Outcome(Returned) = Outcome(parseVCD(RemoveAt(content, k)))

\* No line of the text holds '$enddefinitions'.
NoMarkerIn(lines) == \A k \in 1..Len(lines) : IndexOf(lines[k], EndDefinitions) = 0

SomeLine(lines, prefix) == \E k \in 1..Len(lines) : StartsWith(Trim(lines[k]), prefix)

\* C17: when the text contains no '$enddefinitions' marker, parseVCD returns
\* an empty Signal Table, timescale '1ns' and maxTime 0, whatever $timescale,
\* $var, time-marker or value-change lines the text contains.
C17_NoMarkerDefaults ==
    (pc = "parsed" /\ NoMarkerIn(content)) =>
        /\ DOMAIN signals = {}
        /\ timescale = <<"1","n","s">>
        /\ maxTime = 0

\* A returned call on a text without the marker that declares a timescale of
\* 10 ps and a signal, and has a time marker past 0 and a value change.
C17_Witness ==
    /\ pc = "parsed"
    /\ NoMarkerIn(content)
    /\ SomeLine(content, <<"$","t","i","m","e","s","c","a","l","e"," ","1","0"," ","p","s">>)
    /\ SomeLine(content, <<"$","v","a","r"," ","w","i","r","e"," ","4"," ","&">>)
    /\ SomeLine(content, <<"#","5">>)
    /\ SomeLine(content, <<"1","!">>)

-----------------------------------------------------------------------------
(* Claims about the decoders in a session                                  *)

CallReturned == pc \in {"uart_done", "spi_done", "avalon_done"}

\* The history the decoder under way iterates over: the UART line, SCLK, clk.
Driving ==
    CASE pc \in {"uart", "uart_loop", "uart_done"} -> signals[RxName].values
      [] pc \in {"spi", "spi_loop", "spi_done"} -> signals[SclkName].values
      [] pc \in {"avalon", "avalon_loop", "avalon_done"} -> signals[ClkName].values

NonDecreasingStart(list) ==
    \A k \in 1..(Len(list) - 1) : list[k].startTime <= list[k + 1].startTime

\* C18 (as stated): for each of decodeUART, decodeSPI and decodeAvalon, and
\* for any signal histories the parser can produce, the returned event list
\* is in non-decreasing startTime order.
C18_AnyParsedHistory == CallReturned => NonDecreasingStart(events)

\* C18 (amended): for each of decodeUART, decodeSPI and decodeAvalon, when the
\* history of the signal the decoder iterates over (the UART line, SCLK, clk)
\* is recorded at non-decreasing ticks, the returned event list is in
\* non-decreasing startTime order.
C18_TimeOrderedHistory ==
    (CallReturned /\ TimeOrdered(Driving)) => NonDecreasingStart(events)

\* The rows decoded so far by the given decoder.
RowsOf(decoder) == {k \in 1..Len(decoded) : decoded[k].decoder = decoder}

\* All three decoders have returned two events or more from histories
\* recorded at non-decreasing ticks.
C18_Witness ==
    /\ pc = "parsed"
    /\ \A name \in {RxName, SclkName, ClkName} :
          Supplied(name) /\ TimeOrdered(signals[name].values)
    /\ \A decoder \in {"uart", "spi", "avalon"} :
          \E k \in RowsOf(decoder) : Len(decoded[k].events) >= 2

\* No pair of consecutive entries goes from the first level to the second.
NoEdge(values, from, to) ==
    \A k \in 2..Len(values) : ~(values[k - 1].value = from /\ values[k].value = to)

\* The driving signal has no edge the decoder under way acts on: no falling
\* edge of the UART line, no edge of SCLK, no rising edge of clk.
NoQualifyingEdge ==
    CASE pc = "uart_done" -> NoEdge(Driving, <<"1">>, <<"0">>)
      [] pc = "spi_done" -> NoEdge(Driving, <<"0">>, <<"1">>) /\ NoEdge(Driving, <<"1">>, <<"0">>)
      [] pc = "avalon_done" -> NoEdge(Driving, <<"0">>, <<"1">>)

InLoop == pc \in {"uart_loop", "spi_loop", "avalon_loop"}

C20_TableUntouched ==
    /\ [][(pc = "parsed" \/ CallUnderWay \/ CallReturned) => signals' = signals]_vars
    /\ [](\A a, b \in 1..Len(decoded) :
            (decoded[a].decoder = decoded[b].decoder /\ decoded[a].config = decoded[b].config)
                => decoded[a].events = decoded[b].events)

\* The same call made first and again after a call of another decoder, both
\* decoders returning events.
C20_Witness ==
    /\ pc = "parsed"
    /\ Len(decoded) = 3
    /\ decoded[1].decoder = decoded[3].decoder
    /\ decoded[1].config = decoded[3].config
    /\ decoded[2].decoder # decoded[1].decoder
    /\ decoded[1].events # <<>>
    /\ decoded[2].events # <<>>

-----------------------------------------------------------------------------
(* Claims about the decoders' scans                                        *)

\* The iteration of decodeUART's loop at hand appends an event.
EmitsFrame == pc = "uart_loop" /\ Len(events') = Len(events) + 1

\* The tick at which the frame of event e ends.
FrameEnd(e) == e.startTime + 10 * bitDurationTicks

\* After an event that starts at the entry at hand, every entry from there on
\* whose time is before the frame's end is behind the scan.
SkipsFrame ==
    EmitsFrame =>
        \A k \in i..Len(Rx.values) :
            Rx.values[k].time < Rx.values[i].time + 10 * bitDurationTicks => k < i'

\* No event after event a starts inside a's frame.
FramesApart ==
    \A a, b \in 1..Len(events) :
        a < b => ~(events[a].startTime <= events[b].startTime
                     /\ events[b].startTime < FrameEnd(events[a]))

\* A 1 -> 0 transition after the start bit and inside the frame of a decoded
\* event is not the start of an event of its own.
InnerTransitionsSilent ==
    \A a \in 1..Len(events), k \in 2..Len(Rx.values) :
        (FallingAt(k) /\ events[a].startTime < Rx.values[k].time
                      /\ Rx.values[k].time < FrameEnd(events[a]))
            => \A b \in 1..Len(events) : events[b].startTime # Rx.values[k].time

\* C21 as stated: for any history, after decodeUART emits an event starting at
\* t0 the scan skips every entry with time < t0 + 10*bitDurationTicks, no later
\* event starts inside [t0, t0 + 10*bitDurationTicks), and a 1 -> 0 transition
\* between the data bits of a decoded frame starts no event.
C21_AnyHistory ==
    /\ [][SkipsFrame]_vars
    /\ [](pc \in {"uart_loop", "uart_done"} => FramesApart /\ InnerTransitionsSilent)

\* C21 amended: the same, for a history whose entry times are non-decreasing
\* in append order.
C21_TimeOrderedHistory ==
    /\ [][TimeOrdered(Rx.values) => SkipsFrame]_vars
    /\ []((pc \in {"uart_loop", "uart_done"} /\ TimeOrdered(Rx.values))
            => FramesApart /\ InnerTransitionsSilent)

\* Witness of C21: two frames decoded from a time-ordered line, the first with
\* a 1 -> 0 transition between its data bits.
C21_Witness ==
    /\ pc = "uart_done"
    /\ TimeOrdered(Rx.values)
    /\ Len(events) = 2
    /\ events[2].startTime >= FrameEnd(events[1])
    /\ \E k \in 2..Len(Rx.values) :
          /\ FallingAt(k)
          /\ events[1].startTime < Rx.values[k].time
          /\ Rx.values[k].time < FrameEnd(events[1])

\* The transitions of the sampling polarity among entries from..to of the clock.
SamplingEdges(from, to) == {k \in from..to : SamplingPolarityAt(k)}

\* The iteration at hand emits a byte.
EmitsByte == SPIIteration /\ Len(events') = Len(events) + 1

\* The byte emitted at entry i is built from 8 consecutive sampling edges, the
\* eighth at entry i, and chip-select is active at every clock transition from
\* the first of them to the eighth.
BuiltFromSelectedEdges ==
    \E first \in 2..i :
        /\ SamplingPolarityAt(first)
        /\ SamplingPolarityAt(i)
        /\ Cardinality(SamplingEdges(first, i)) = ByteBits
        /\ \A k \in first..i : SelectedAt(k)

\* C22: with chip-select supplied, every clock transition at which its value
\* is not '0' empties both accumulators, clears the byte start time and samples
\* nothing, and every emitted byte is built from 8 consecutive sampling edges
\* with no clock transition from the first to the eighth at which chip-select
\* was inactive.
C22_DeselectDiscards ==
    /\ [][(SPIIteration /\ Supplied(CsName) /\ ~SelectedAt(i))
            => /\ mosiBits' = <<>>
               /\ misoBits' = <<>>
               /\ byteStartTime' = NoByteStart
               /\ events' = events]_vars
    /\ [][(EmitsByte /\ Supplied(CsName)) => BuiltFromSelectedEdges]_vars

\* Witness of C22: chip-select was released after bits of a byte had been
\* sampled, and a byte was decoded from the edges after it became active again.
C22_Witness ==
    /\ pc = "spi_done"
    /\ Supplied(CsName)
    /\ DataSupplied
    /\ events # <<>>
    /\ \E j, k \in 2..Len(Sclk) :
          /\ j < k
          /\ SamplingPolarityAt(j) /\ SelectedAt(j)
          /\ ~SelectedAt(k)
          /\ Sclk[k].time - Sclk[j].time < ByteBits
          /\ events[1].startTime > Sclk[k].time

\* The entries of clk that complete a rising edge, and the first two of them.
RisingEntries == {k \in 2..Len(Clk) : ClkRisingAt(k)}

FirstRisingEntry == SetMin(RisingEntries)

SecondRisingEntry == SetMin(RisingEntries \ {FirstRisingEntry})

\* The tick distance from the first rising edge to the second.
RisingDistance == Clk[SecondRisingEntry].time - Clk[FirstRisingEntry].time

\* The call has estimated the period: it did not return at its entry check.
AvalonRunning ==
    /\ pc \in {"avalon_loop", "avalon_done"}
    /\ Supplied(ClkName)
    /\ Len(Clk) >= 2

\* Every event the iteration at hand appends starts at the edge's tick and
\* ends one period later.
OnePeriodEvents ==
    \A n \in 1..Len(Emitted) :
        /\ Emitted[n].startTime = Clk[i].time
        /\ Emitted[n].endTime = Clk[i].time + clockPeriod

\* C23 as stated: the clock period is the tick distance between the first two
\* rising edges of clk, or 1 tick when there are fewer than two; it is the same
\* for the whole run, and every event emitted at a rising edge at t has
\* startTime t and endTime t + period.
C23_TickDistance ==
    /\ [](AvalonRunning =>
            clockPeriod = IF Cardinality(RisingEntries) >= 2 THEN RisingDistance ELSE 1)
    /\ [][AvalonRunning => clockPeriod' = clockPeriod]_vars
    /\ [][AvalonIteration => OnePeriodEvents]_vars

\* C23 amended: the clock period is the tick distance from the first rising
\* edge to the second, raised to 1 tick when that distance is less than 1, or 1
\* tick when there are fewer than two rising edges; the rest as stated.
C23_ClampedDistance ==
    /\ [](AvalonRunning =>
            clockPeriod = IF Cardinality(RisingEntries) >= 2
                          THEN (IF RisingDistance >= 1 THEN RisingDistance ELSE 1)
                          ELSE 1)
    /\ [][AvalonRunning => clockPeriod' = clockPeriod]_vars
    /\ [][AvalonIteration => OnePeriodEvents]_vars

\* Witness of C23: a finished run over a clock of period 3 in which events of
\* 3 ticks were emitted at two rising edges.
C23_Witness ==
    /\ pc = "avalon_done"
    /\ Supplied(ClkName)
    /\ Cardinality(RisingEntries) >= 2
    /\ RisingDistance = 3
    /\ clockPeriod = 3
    /\ \E a, b \in 1..Len(events) :
          /\ events[a].startTime < events[b].startTime
          /\ events[a].endTime = events[a].startTime + 3
          /\ events[b].endTime = events[b].startTime + 3

\* The events of the list whose data text begins with the given words.
EventsOfKind(list, kind) == {e \in 1..Len(list) : IsPrefix(kind, list[e].data)}

\* The iteration at hand is at a rising edge that is not stalled.
ActsAtEdge == AvalonIteration /\ ClkRisingAt(i) /\ ~Stalled(Clk[i].time)

\* The iteration appends an event with this data text and this label.
EmitsEvent(data, label) ==
    \E n \in 1..Len(Emitted) : Emitted[n].data = data /\ Emitted[n].label = label

\* The hex text of a supplied line at the tick of the edge at hand.
HexNow(name) == binToHex(LineValue(name, Clk[i].time))

\* C24: without the write (read, readdatavalid) line no WRITE (READ REQ, READ
\* DATA) event is ever emitted; without address, writedata or readdata the
\* event is still emitted, with 'X' in the place of that field.
C24_AbsencePolicy ==
    /\ [](AvalonRunning =>
            /\ ~Supplied(WriteName) => EventsOfKind(events, <<"W","R","I","T","E">>) = {}
            /\ ~Supplied(ReadName) => EventsOfKind(events, <<"R","E","A","D"," ","R","E","Q">>) = {}
            /\ ~Supplied(ReaddatavalidName) => EventsOfKind(events, <<"R","E","A","D"," ","D","A","T","A">>) = {})
    /\ [][(ActsAtEdge /\ High(WriteName, Clk[i].time) /\ ~Supplied(AddressName)
              /\ Supplied(WritedataName))
            => EmitsEvent(<<"W","R","I","T","E"," ","A","d","d","r",":"," ","0","x","X",","," ","D","a","t","a",":"," ","0","x">> \o HexNow(WritedataName),
                          <<"W","R"," ","0","x","X">>)]_vars
    /\ [][(ActsAtEdge /\ High(WriteName, Clk[i].time) /\ Supplied(AddressName)
              /\ ~Supplied(WritedataName))
            => EmitsEvent(<<"W","R","I","T","E"," ","A","d","d","r",":"," ","0","x">> \o HexNow(AddressName) \o <<","," ","D","a","t","a",":"," ","0","x","X">>,
                          <<"W","R"," ","0","x">> \o HexNow(AddressName))]_vars
    /\ [][(ActsAtEdge /\ High(WriteName, Clk[i].time) /\ ~Supplied(AddressName)
              /\ ~Supplied(WritedataName))
            => EmitsEvent(<<"W","R","I","T","E"," ","A","d","d","r",":"," ","0","x","X",","," ","D","a","t","a",":"," ","0","x","X">>, <<"W","R"," ","0","x","X">>)]_vars
    /\ [][(ActsAtEdge /\ High(ReadName, Clk[i].time) /\ ~Supplied(AddressName))
            => EmitsEvent(<<"R","E","A","D"," ","R","E","Q"," ","A","d","d","r",":"," ","0","x","X">>, <<"R","D"," ","R","E","Q"," ","0","x","X">>)]_vars
    /\ [][(ActsAtEdge /\ High(ReaddatavalidName, Clk[i].time) /\ ~Supplied(ReaddataName))
            => EmitsEvent(<<"R","E","A","D"," ","D","A","T","A",":"," ","0","x","X">>, <<"R","D"," ","D","A","T","A"," ","0","x","X">>)]_vars

\* Witness of C24: a finished run without write, address and readdata lines
\* that emitted a read request and read data, both with X for the missing
\* field, at edges where nothing was written.
C24_Witness ==
    /\ pc = "avalon_done"
    /\ Supplied(ClkName)
    /\ ~Supplied(WriteName) /\ ~Supplied(AddressName) /\ ~Supplied(ReaddataName)
    /\ Supplied(ReadName) /\ Supplied(ReaddatavalidName)
    /\ \E e \in 1..Len(events) : events[e].data = <<"R","E","A","D"," ","R","E","Q"," ","A","d","d","r",":"," ","0","x","X">>
    /\ \E e \in 1..Len(events) : events[e].data = <<"R","E","A","D"," ","D","A","T","A",":"," ","0","x","X">>
    /\ EventsOfKind(events, <<"W","R","I","T","E">>) = {}

-----------------------------------------------------------------------------
(* Claims about the histories parseVCD returns                             *)

\* The line is read as a time marker by the data loop.
IsTimeMarker(raw) == Trim(raw) # <<>> /\ Trim(raw)[1] = "#"

\* The ticks of the time markers among lines k.. of a data region, as read.
RECURSIVE MarkerTicks(_, _)
MarkerTicks(lines, k) ==
    IF k > Len(lines) THEN <<>>
    ELSE (IF IsTimeMarker(lines[k]) THEN <<parseInt(Tail(Trim(lines[k])))>> ELSE <<>>)
         \o MarkerTicks(lines, k + 1)

\* Every time marker of the data region gives a number, the first is not
\* negative and none is less than the one before it.
MarkersInTimeOrder ==
    LET t == MarkerTicks(dataLines(content), 1)
    IN /\ \A k \in 1..Len(t) : ~t[k].nan
       /\ t # <<>> => t[1].n >= 0
       /\ \A k \in 1..(Len(t) - 1) : t[k].n <= t[k + 1].n

\* Every history of the table is in non-decreasing tick order.
HistoriesTimeOrdered == \A n \in DOMAIN signals : TimeOrdered(signals[n].values)

\* C25 as stated: for any sequence of time-marker and value-change lines, the
\* entry times of every signal of the returned table are non-decreasing in
\* append order.
C25_AnyDataRegion == pc = "parsed" => HistoriesTimeOrdered

\* C25 amended: the same for a data region whose time markers are numbers
\* that never decrease.
C25_OrderedMarkers ==
    (pc = "parsed" /\ HasMarker /\ MarkersInTimeOrder) => HistoriesTimeOrdered

\* Witness of C25: a dump with ascending time markers was parsed; a declared
\* signal has entries at two ticks and a reconstructed vector has entries at
\* two ticks.
C25_Witness ==
    /\ pc = "parsed"
    /\ HasMarker
    /\ MarkersInTimeOrder
    /\ \E n \in DOMAIN signals :
          /\ ~IsComposite(signals[n])
          /\ \E e \in 1..(Len(signals[n].values) - 1) :
                signals[n].values[e].time < signals[n].values[e + 1].time
    /\ \E n \in DOMAIN signals :
          /\ IsComposite(signals[n])
          /\ \E e \in 1..(Len(signals[n].values) - 1) :
                signals[n].values[e].time < signals[n].values[e + 1].time

-----------------------------------------------------------------------------
(* Claims about the names parseVCD registers                               *)

IsScopeLine(raw) == StartsWith(Trim(raw), <<"$","s","c","o","p","e">>)
IsUpscopeLine(raw) == StartsWith(Trim(raw), <<"$","u","p","s","c","o","p","e">>)
IsVarLine(raw) == StartsWith(Trim(raw), <<"$","v","a","r">>)

\* The names of the scopes open after the first k lines of a header: a $scope
\* line opens the scope it names, an $upscope line closes the one opened last
\* and does nothing when none is open.
RECURSIVE OpenScopes(_, _)
OpenScopes(lines, k) ==
    IF k = 0 THEN <<>>
    ELSE LET before == OpenScopes(lines, k - 1)
         IN IF IsScopeLine(lines[k]) THEN before \o <<SplitWs(Trim(lines[k]))[3]>>
            ELSE IF IsUpscopeLine(lines[k])
            THEN (IF before = <<>> THEN <<>> ELSE SubSeq(before, 1, Len(before) - 1))
            ELSE before

\* Every $scope line of the header names its scope.
ScopesNamed(lines) ==
    \A k \in 1..Len(lines) : IsScopeLine(lines[k]) => Len(SplitWs(Trim(lines[k]))) >= 3

\* The names, each followed by a dot.
RECURSIVE Dotted(_)
Dotted(names) == IF names = <<>> THEN <<>> ELSE Head(names) \o <<".">> \o Dotted(Tail(names))

\* The base name of a $var line: the words between the identifier code and $end.
RECURSIVE WordsUntilEnd(_, _)
WordsUntilEnd(parts, k) ==
    IF k > Len(parts) \/ parts[k] = <<"$","e","n","d">> THEN <<>>
    ELSE (IF k > 5 THEN <<" ">> ELSE <<>>) \o parts[k] \o WordsUntilEnd(parts, k + 1)

\* The key the claim gives the $var at line k of the header.
ClaimedKey(lines, k) ==
    Dotted(OpenScopes(lines, k - 1)) \o WordsUntilEnd(SplitWs(Trim(lines[k])), 5)

\* The header line the step at hand reads.
HeaderLineRead == pc = "parse_header" /\ lineNo <= Len(headerLines(content))

Bracketed(name) == BitMatch(name).ok

\* In the table as the data loop left it, name is a single-bit bracketed
\* signal of a base that has members at two or more indexes.
InMergedGroup(name) ==
    /\ name \in DOMAIN PreTable
    /\ Bracketed(name)
    /\ IsOne(PreTable[name].size)
    /\ Cardinality(BitIndexes(PreTable, BitMatch(name).base)) > 1

\* Another single-bit member of the same base with the same index stands
\* later in the table.
Shadowed(name) ==
    \E m \in BitSignals(PreTable, BitMatch(name).base) :
        /\ BitMatch(m).bitIdx = BitMatch(name).bitIdx
        /\ PreTable[m].order > PreTable[name].order

\* C27 as stated: after the vector-reconstruction pass no signal name in the
\* table matches the bracketed-index pattern '<base>[<index>]'.
C27_NoBracketedName ==
    (pc = "parsed" /\ HasMarker) => \A n \in DOMAIN signals : ~Bracketed(n)

\* C27 amended: after the pass a name matching '<base>[<index>]' is in the
\* table only if it was there before the pass and its signal is not
\* single-bit, or its base has members at one index only, or another
\* single-bit member of its base with the same index stands later in the
\* table; every other single-bit member of a base with two or more indexes is
\* gone.
C27_MergedMembersGone ==
    (pc = "parsed" /\ HasMarker) =>
        /\ \A n \in DOMAIN signals : Bracketed(n) => n \in DOMAIN PreTable
        /\ \A n \in DOMAIN PreTable :
              InMergedGroup(n) => (n \in DOMAIN signals <=> Shadowed(n))

\* Witness of C27: a returned table from which the members of a merged group
\* are gone and in which the only member of another base, with a bracketed
\* name, is still present.
C27_Witness ==
    /\ pc = "parsed"
    /\ HasMarker
    /\ \E n \in DOMAIN PreTable : InMergedGroup(n) /\ n \notin DOMAIN signals
    /\ \E n \in DOMAIN signals :
          /\ Bracketed(n)
          /\ IsOne(signals[n].size)
          /\ ~InMergedGroup(n)

-----------------------------------------------------------------------------
(* Claims about the events' extent                                         *)

StartsBeforeEnd(list) == \A e \in 1..Len(list) : list[e].startTime <= list[e].endTime

\* The clock transitions of the sampling polarity among entries from..to at
\* which chip-select is active.
SelectedSamplingEdges(from, to) == {k \in SamplingEdges(from, to) : SelectedAt(k)}

\* The byte emitted at entry i runs from the first of its 8 sampling edges to
\* the eighth, which is entry i.
FirstToEighth ==
    \E first \in 2..i :
        /\ first \in SelectedSamplingEdges(first, i)
        /\ i \in SelectedSamplingEdges(first, i)
        /\ Cardinality(SelectedSamplingEdges(first, i)) = ByteBits
        /\ events'[Len(events')].startTime = Sclk[first].time
        /\ events'[Len(events')].endTime = Sclk[i].time

\* What C28 says of the length of each decoder's events.
EventExtents ==
    /\ []((pc = "uart_done" /\ events # <<>>) =>
            /\ bitDurationTicks >= 1
            /\ \A e \in 1..Len(events) :
                  events[e].endTime = events[e].startTime + 10 * bitDurationTicks)
    /\ [][EmitsByte => FirstToEighth]_vars
    /\ []((pc = "avalon_done" /\ events # <<>>) =>
            /\ clockPeriod >= 1
            /\ \A e \in 1..Len(events) :
                  events[e].endTime = events[e].startTime + clockPeriod)

\* C28 as stated: every event returned by decodeUART, decodeSPI or decodeAvalon
\* has startTime <= endTime; a UART event is exactly 10*bitDurationTicks long
\* with bitDurationTicks >= 1, an SPI event runs from its first to its eighth
\* sampling edge, an Avalon event is exactly one clock period (>= 1) long.
C28_StartBeforeEnd ==
    /\ EventExtents
    /\ [](CallReturned => StartsBeforeEnd(events))

\* C28 amended: the lengths as stated; startTime <= endTime for every UART and
\* Avalon event, and for every SPI event when the SCLK history is recorded at
\* non-decreasing ticks.
C28_OrderedClock ==
    /\ EventExtents
    /\ []((CallReturned /\ (pc = "spi_done" => TimeOrdered(Driving)))
            => StartsBeforeEnd(events))

\* Witness of C28: the three decoders have each returned events, the UART one
\* with a bit duration raised to one tick, from histories recorded at
\* non-decreasing ticks.
C28_Witness ==
    /\ pc = "parsed"
    /\ \A name \in {RxName, SclkName, ClkName} :
          Supplied(name) /\ TimeOrdered(signals[name].values)
    /\ \A decoder \in {"uart", "spi", "avalon"} :
          \E k \in RowsOf(decoder) : decoded[k].events # <<>>
    /\ \E k \in RowsOf("uart") :
          decoded[k].config.baudRate = 2100000000 /\ decoded[k].events # <<>>

-----------------------------------------------------------------------------
(* Claims about the bits decodeSPI accumulates                             *)

\* The value a supplied data line has at the clock transition at entry k.
SampledValue(name, k) == getSignalValueAt(signals[name], 2 * Sclk[k].time)

\* Counted from the clock and chip-select alone, after entries 2..k: pending,
\* the number of sampling edges since the last completed byte or deselected
\* transition, and eights, the number of times 8 sampling edges have gone by
\* under active chip-select.
RECURSIVE EdgeCount(_)
EdgeCount(k) ==
    IF k < 2 THEN [pending |-> 0, eights |-> 0]
    ELSE LET before == EdgeCount(k - 1)
         IN IF ~SelectedAt(k) THEN [before EXCEPT !.pending = 0]
            ELSE IF ~SamplingPolarityAt(k) THEN before
            ELSE IF before.pending = ByteBits - 1
            THEN [pending |-> 0, eights |-> before.eights + 1]
            ELSE [before EXCEPT !.pending = before.pending + 1]

EdgesPending(k) == EdgeCount(k).pending

EightsThrough(k) == EdgeCount(k).eights

\* The two hex digits an event's data gives for a line: characters 9..10 of
\* 'MOSI: 0xHH, MISO: 0xHH' for MOSI and 21..22 for MISO.
HexField(data, name) ==
    IF name = MosiName THEN SubSeq(data, 9, 10) ELSE SubSeq(data, 21, 22)

\* The iteration at hand accumulates bit as the sample of a supplied line:
\* it is appended to the accumulator or, at the eighth edge, is the lowest bit
\* of the byte emitted for the line.
Accumulates(name, bits, bits2, bit) ==
    IF Len(events') = Len(events)
    THEN bits2 = Append(bits, bit)
    ELSE /\ Len(events') = Len(events) + 1
         /\ HexField(events'[Len(events')].data, name)
               = TwoHex(MsbFirstValue(Append(bits, bit)))

\* C29: in decodeSPI a sampled MOSI or MISO value that is not '1' ('0', 'x',
\* 'z') is accumulated as bit 0 and '1' as bit 1, and in a run with a data
\* line the bytes emitted are counted by the clock and chip-select alone:
\* one after every 8 sampling edges under active chip-select, whatever the
\* sampled values are.
C29_UnknownIsZero ==
    /\ [][(SPIIteration /\ SamplingPolarityAt(i) /\ SelectedAt(i) /\ Supplied(MosiName))
            => Accumulates(MosiName, mosiBits, mosiBits',
                           IF SampledValue(MosiName, i) = <<"1">> THEN 1 ELSE 0)]_vars
    /\ [][(SPIIteration /\ SamplingPolarityAt(i) /\ SelectedAt(i) /\ Supplied(MisoName))
            => Accumulates(MisoName, misoBits, misoBits',
                           IF SampledValue(MisoName, i) = <<"1">> THEN 1 ELSE 0)]_vars
    /\ [][(SPIIteration /\ DataSupplied)
            => Len(events') = EightsThrough(i)]_vars
    /\ []((pc = "spi_done" /\ Supplied(SclkName) /\ DataSupplied)
            => Len(events) = EightsThrough(Len(Sclk)))

\* Witness of C29: a finished run emitted a byte one of whose 8 samples, on
\* MOSI or on MISO, was neither '0' nor '1'.
C29_Witness ==
    /\ pc = "spi_done"
    /\ Supplied(SclkName)
    /\ TimeOrdered(Sclk)
    /\ \E n \in 1..Len(events), k \in 2..Len(Sclk), name \in {MosiName, MisoName} :
          /\ Supplied(name)
          /\ SamplingPolarityAt(k) /\ SelectedAt(k)
          /\ events[n].startTime <= Sclk[k].time
          /\ Sclk[k].time <= events[n].endTime
          /\ SampledValue(name, k) \in {<<"x">>, <<"z">>}
          /\ \A j \in 2..Len(Sclk) :
                (events[n].startTime <= Sclk[j].time /\ Sclk[j].time <= events[n].endTime)
                    => SelectedAt(j)

\* The accumulator of a data line.
Accumulator(name) == IF name = MosiName THEN mosiBits ELSE misoBits

\* C30: at the start of every iteration of decodeSPI's clock loop, when at
\* least one of MOSI and MISO is supplied, each supplied line's accumulator
\* holds at most 7 bits, the two accumulators have equal length when both lines
\* are supplied, and the byte start time is unset exactly when the accumulators
\* are empty; when neither line is supplied no event is ever emitted.
C30_LoopInvariant ==
    /\ (pc = "spi_loop" /\ DataSupplied) =>
          /\ \A name \in {MosiName, MisoName} :
                Supplied(name) => Len(Accumulator(name)) <= ByteBits - 1
          /\ (Supplied(MosiName) /\ Supplied(MisoName)) => Len(mosiBits) = Len(misoBits)
          /\ (byteStartTime = NoByteStart) = (mosiBits = <<>> /\ misoBits = <<>>)
    /\ (pc \in {"spi_loop", "spi_done"} /\ ~DataSupplied) => events = <<>>

\* Witness of C30: an iteration starts with 7 bits in both accumulators, after
\* a byte has already been emitted.
C30_Witness ==
    /\ pc = "spi_loop"
    /\ Supplied(MosiName) /\ Supplied(MisoName)
    /\ Len(mosiBits) = ByteBits - 1
    /\ Len(misoBits) = ByteBits - 1
    /\ byteStartTime # NoByteStart
    /\ events # <<>>

====
